---- MODULE Spec2Model ----
(***************************************************************************)
(* Camera assessment: pinhole ground projection, the Newton tilt solver,   *)
(* the adaptive maximum-distance search and the analysis entry points.     *)
(*                                                                         *)
(* JavaScript numbers are binary floating-point values.  They are modelled *)
(* here as binary floating-point values <<m, e>> (value m * 2^e) with a    *)
(* MantBits-bit mantissa and round-to-nearest-even, so that very large     *)
(* distances, absorption (d - 2 = d) and midpoint rounding behave as they  *)
(* do in the program, at a reduced precision.                              *)
(***************************************************************************)
EXTENDS Integers, Sequences, FiniteSets, TLC

\* ------------------------------------------------------------------------
\* Floating-point numbers: <<m, e>> stands for m * 2^e; m = 0 or
\* 2^(MantBits-1) <= |m| < 2^MantBits.
\* ------------------------------------------------------------------------
HalfBits == 12 + 1
MantBits == 2 * HalfBits
HalfBase == 2 ^ HalfBits
MantTop == 2 ^ MantBits
MantLow == 2 ^ (MantBits - 1)

Float == Int \X Int

Zero == <<0, 0>>

Pow2(k) == 2 ^ k

BitLen(a) ==
    IF a < 65536
    THEN IF a < 256
         THEN IF a < 16
              THEN IF a < 4 THEN (IF a < 2 THEN a ELSE 2)
                            ELSE (IF a < 8 THEN 3 ELSE 4)
              ELSE IF a < 64 THEN (IF a < 32 THEN 5 ELSE 6)
                             ELSE (IF a < 128 THEN 7 ELSE 8)
         ELSE IF a < 4096
              THEN IF a < 1024 THEN (IF a < 512 THEN 9 ELSE 10)
                               ELSE (IF a < 2048 THEN 11 ELSE 12)
              ELSE IF a < 16384 THEN (IF a < 8192 THEN 13 ELSE 14)
                                ELSE (IF a < 32768 THEN 15 ELSE 16)
    ELSE IF a < 16777216
         THEN IF a < 1048576
              THEN IF a < 262144 THEN (IF a < 131072 THEN 17 ELSE 18)
                                 ELSE (IF a < 524288 THEN 19 ELSE 20)
              ELSE IF a < 4194304 THEN (IF a < 2097152 THEN 21 ELSE 22)
                                  ELSE (IF a < 8388608 THEN 23 ELSE 24)
         ELSE IF a < 268435456
              THEN IF a < 67108864 THEN (IF a < 33554432 THEN 25 ELSE 26)
                                   ELSE (IF a < 134217728 THEN 27 ELSE 28)
              ELSE IF a < 1073741824 THEN (IF a < 536870912 THEN 29 ELSE 30)
                                     ELSE 31

\* Round the magnitude a (a < 2^31) with sign sg and exponent e to MantBits
\* bits, to nearest, ties to even; sticky says that bits below a were lost.
RoundUp(sg, q2, e) ==
    IF q2 = MantTop THEN <<sg * MantLow, e + 1>> ELSE <<sg * q2, e>>

RoundShift(sg, q, r, half, e, sticky) ==
    RoundUp(sg, IF r > half \/ (r = half /\ (sticky \/ q % 2 = 1)) THEN q + 1 ELSE q, e)

RoundLen(sg, a, e, sticky, len) ==
    IF len <= MantBits
    THEN <<sg * a * Pow2(MantBits - len), e - (MantBits - len)>>
    ELSE RoundShift(sg, a \div Pow2(len - MantBits), a % Pow2(len - MantBits),
                    Pow2(len - MantBits - 1), e + (len - MantBits), sticky)

RoundMag(sg, a, e, sticky) ==
    IF a = 0 THEN Zero ELSE RoundLen(sg, a, e, sticky, BitLen(a))

Sgn(n) == IF n < 0 THEN -1 ELSE IF n = 0 THEN 0 ELSE 1
Mag(n) == IF n < 0 THEN -n ELSE n

FromInt(n) == RoundMag(Sgn(n), Mag(n), 0, FALSE)

FNeg(x) == <<-x[1], x[2]>>
FAbs(x) == <<Mag(x[1]), x[2]>>

\* The product of two mantissas from their half-words: hi, mid and lo are
\* the partial products, t the middle sum with the carry of lo.
MulSum(sg, hi, t, lo, e) ==
    RoundMag(sg, hi * 16 + t \div 512, e, (t % 512 # 0) \/ (lo % HalfBase # 0))

MulParts(sg, a1, a0, b1, b0, e) ==
    MulSum(sg, a1 * b1, a1 * b0 + a0 * b1 + (a0 * b0) \div HalfBase, a0 * b0, e)

MulMag(sg, a, b, e) ==
    MulParts(sg, a \div HalfBase, a % HalfBase, b \div HalfBase, b % HalfBase, e)

FMul[x \in Float, y \in Float] ==
    IF x[1] = 0 \/ y[1] = 0 THEN Zero
    ELSE MulMag(Sgn(x[1]) * Sgn(y[1]), Mag(x[1]), Mag(y[1]), x[2] + y[2] + MantBits - 4)

\* Long division, five quotient bits a step: <<quotient, remainder>>.
RECURSIVE DivBits(_, _, _, _)
DivBits(q, r, b, steps) ==
    IF steps = 0 THEN <<q, r>>
    ELSE DivBits(q * 32 + (r * 32) \div b, (r * 32) % b, b, steps - 1)

DivLast(sg, qr5, b, e) ==
    RoundMag(sg, qr5[1] * 16 + (qr5[2] * 16) \div b, e, (qr5[2] * 16) % b # 0)

DivMag(sg, a, b, e) == DivLast(sg, DivBits(a \div b, a % b, b, 5), b, e)

FDiv[x \in Float, y \in Float] ==
    IF x[1] = 0 THEN Zero
    ELSE DivMag(Sgn(x[1]) * Sgn(y[1]), Mag(x[1]), Mag(y[1]), x[2] - y[2] - 29)

\* Round the signed sum s; when bits of the smaller operand were shifted out
\* below a negative sum, its magnitude lies just under -s.
AddSum(s, e, sticky) ==
    RoundMag(Sgn(s), IF s < 0 /\ sticky THEN (-s) - 1 ELSE Mag(s), e, sticky)

\* x + y, with exponents d = ex - ey >= 0 apart.
AddShift(x, y, d) ==
    IF d <= 4
    THEN AddSum(x[1] * Pow2(d) + y[1], y[2], FALSE)
    ELSE AddSum(x[1] * 16 + (IF d - 4 > MantBits THEN (IF y[1] < 0 THEN -1 ELSE 0)
                                                 ELSE y[1] \div Pow2(d - 4)),
                x[2] - 4,
                d - 4 > MantBits \/ y[1] % Pow2(d - 4) # 0)

AddOrdered(x, y) == AddShift(x, y, x[2] - y[2])

FAdd[x \in Float, y \in Float] ==
    IF x[1] = 0 THEN y
    ELSE IF y[1] = 0 THEN x
    ELSE AddOrdered(IF x[2] >= y[2] THEN x ELSE y, IF x[2] >= y[2] THEN y ELSE x)

FSub[x \in Float, y \in Float] == FAdd[x, FNeg(y)]

FSign(x) == Sgn(x[1])
FLt(x, y) == FSign(FSub[x, y]) < 0
FLe(x, y) == FSign(FSub[x, y]) <= 0
FGt(x, y) == FLt(y, x)
FGe(x, y) == FLe(y, x)

MathMax(x, y) == IF FLt(x, y) THEN y ELSE x
MathMin(x, y) == IF FLt(y, x) THEN y ELSE x

\* Math.floor
MathFloor(x) ==
    IF x[2] >= 0 \/ x[1] = 0 THEN x
    ELSE IF -x[2] >= MantBits THEN (IF x[1] < 0 THEN FromInt(-1) ELSE Zero)
    ELSE FromInt(x[1] \div Pow2(-x[2]))

Ratio(n, d) == FDiv[FromInt(n), FromInt(d)]

One == FromInt(1)
Two == FromInt(2)
OneHalf == Ratio(1, 2)

\* Math.PI
MathPI == <<52707179, -24>>

\* Math.sin and Math.cos, by their Taylor series in x^2 (|x| <= pi/2 in
\* every call), summed by Horner's rule; SinCoef[k] = (-1)^k / (2k+1)! and
\* CosCoef[k] = (-1)^k / (2k)!.
SinCoef == <<Ratio(-1, 6), Ratio(1, 120), Ratio(-1, 5040), Ratio(1, 362880),
             Ratio(-1, 39916800), FDiv[Ratio(1, 39916800), FromInt(156)],
             FDiv[Ratio(-1, 39916800), FromInt(32760)]>>
CosCoef == <<Ratio(-1, 2), Ratio(1, 24), Ratio(-1, 720), Ratio(1, 40320),
             Ratio(-1, 3628800), Ratio(1, 479001600),
             FDiv[Ratio(-1, 479001600), FromInt(182)]>>

RECURSIVE Horner(_, _, _)
Horner(coef, x2, k) ==
    IF k > Len(coef) THEN Zero
    ELSE FMul[x2, FAdd[coef[k], Horner(coef, x2, k + 1)]]

MathSin[x \in Float] == FMul[x, FAdd[One, Horner(SinCoef, FMul[x, x], 1)]]
MathCos[x \in Float] == FAdd[One, Horner(CosCoef, FMul[x, x], 1)]

\* Math.atan for x >= 0: a rational first guess on [0, 1], refined by Newton
\* steps y - cos(y) * (sin(y) - x * cos(y)) on tan(y) = x; atan(x) is
\* pi/2 - atan(1/x) above 1.
AtanRefine(y, x, c, s) == FSub[y, FMul[c, FSub[s, FMul[x, c]]]]

AtanStep[y \in Float, x \in Float] == AtanRefine(y, x, MathCos[y], MathSin[y])

AtanUnit[x \in Float] ==
    AtanStep[AtanStep[AtanStep[FDiv[x, FAdd[One, FMul[Ratio(28, 100), FMul[x, x]]]], x], x], x]

AtanReflect(above, unit) ==
    IF above THEN FSub[FMul[MathPI, OneHalf], unit] ELSE unit

AtanFold(x, above) == AtanReflect(above, AtanUnit[IF above THEN FDiv[One, x] ELSE x])

MathAtan[x \in Float] == AtanFold(x, FGt(x, One))

MathTan[x \in Float] == FDiv[MathSin[x], MathCos[x]]

\* ------------------------------------------------------------------------
\* utils/constants
\* ------------------------------------------------------------------------
CAMERA_HEIGHT == 20
SENSOR_RES_X == 2560
SENSOR_RES_Y == 1440
LINE_SPACING == 2
F_MIN == Ratio(48, 10)
F_MAX == 120
FOV_VERTICAL == 33
SENSOR_HEIGHT ==
    FMul[FMul[Two, F_MIN],
         MathTan[FDiv[FMul[FDiv[FromInt(FOV_VERTICAL), Two], MathPI], FromInt(180)]]]
DISTANCE_TOLERANCE == Ratio(1, 1000)

\* ------------------------------------------------------------------------
\* core/projection
\* ------------------------------------------------------------------------
\* A call either returns a value or throws Error('Point behind the camera').
Thrown == [thrown |-> TRUE]
Returned(v) == [thrown |-> FALSE, value |-> v]

ProjectionParams(focalLength, tiltAngle, cameraHeight) ==
    [focalLength |-> focalLength, tiltAngle |-> tiltAngle, cameraHeight |-> cameraHeight]

\* A projection that divides by the focal length where it should multiply.
ProjectImage_DividesByFocal(params, yCam, zCam) ==
    IF FLe(zCam, Zero) THEN Thrown
    ELSE Returned(FMul[FAdd[OneHalf,
                            FDiv[FDiv[FNeg(FDiv[FDiv[yCam, zCam], params.focalLength]),
                                      FDiv[SENSOR_HEIGHT, Two]],
                                 Two]],
                       FromInt(SENSOR_RES_Y)])

\* A projection with the sign convention of the pixel row inverted.
ProjectImage_Inverted(params, yCam, zCam) ==
    IF FLe(zCam, Zero) THEN Thrown
    ELSE Returned(FMul[FSub[OneHalf,
                            FDiv[FDiv[FNeg(FMul[params.focalLength, FDiv[yCam, zCam]]),
                                      FDiv[SENSOR_HEIGHT, Two]],
                                 Two]],
                       FromInt(SENSOR_RES_Y)])

\* The y pixel of the projected point (x is always SENSOR_RES_X / 2); the
\* helpers carry the function's local constants.
ProjectImage(params, yCam, zCam) ==
    IF FLe(zCam, Zero) THEN Thrown
    ELSE Returned(FMul[FAdd[OneHalf,
                            FDiv[FDiv[FNeg(FMul[params.focalLength, FDiv[yCam, zCam]]),
                                      FDiv[SENSOR_HEIGHT, Two]],
                                 Two]],
                       FromInt(SENSOR_RES_Y)])

\* A rotation with the sign of the height term of zCam wrong.
ProjectCamera_PlusHeight(distance, params, cosTilt, sinTilt) ==
    ProjectImage(params,
                 FSub[FMul[FNeg(params.cameraHeight), cosTilt], FMul[distance, sinTilt]],
                 FAdd[FMul[params.cameraHeight, sinTilt], FMul[distance, cosTilt]])

\* yCam and zCam, the camera coordinates after the rotation by the tilt.
ProjectCamera(distance, params, cosTilt, sinTilt) ==
    ProjectImage(params,
                 FSub[FMul[FNeg(params.cameraHeight), cosTilt], FMul[distance, sinTilt]],
                 FAdd[FMul[FNeg(params.cameraHeight), sinTilt], FMul[distance, cosTilt]])

projectGroundPoint(distance, params) ==
    ProjectCamera(distance, params, MathCos[params.tiltAngle], MathSin[params.tiltAngle])

GapBetween(currentProjection, prevProjection) ==
    IF currentProjection.thrown \/ prevProjection.thrown THEN Thrown
    ELSE Returned(FAbs(FSub[currentProjection.value, prevProjection.value]))

computePixelGap(lineDistance, prevLineDistance, params) ==
    GapBetween(projectGroundPoint(lineDistance, params),
               projectGroundPoint(prevLineDistance, params))

\* ------------------------------------------------------------------------
\* core/optimization: the tilt solver
\* ------------------------------------------------------------------------
NewtonIterations == 20
targetPixel == FMul[FromInt(SENSOR_RES_Y), Ratio(9, 10)]
maxTilt == FSub[FDiv[MathPI, Two], Ratio(1, 100)]
minTilt == Ratio(1, 100)
delta == Ratio(1, 10000)
DerivativeFloor == Ratio(1, 1000000)

\* A clamp without its lower limit.
ClampTilt_UpperOnly(tilt) == MathMin(maxTilt, tilt)

ClampTilt(tilt) == MathMax(minTilt, MathMin(maxTilt, tilt))

\* One pass of the refinement loop body from the tilt tilt0: [tilt, stop,
\* caught, fixed, flat, steps] is the tilt after the pass, whether the loop
\* was left by a break, whether that break was the one in the catch block,
\* whether the pass left the (clamped) tilt as it was, and whether it did
\* so because the derivative was not above DerivativeFloor; steps, the
\* number of passes of the loop, is filled in when the loop ends.  The pass
\* is split where the loop body binds a local constant: projection, error,
\* projectionDelta and derivative.
Break(tilt, inCatch) ==
    [tilt |-> tilt, stop |-> TRUE, caught |-> inCatch, fixed |-> FALSE,
     flat |-> FALSE, steps |-> 0]

Continue(tilt, newTilt) ==
    [tilt |-> newTilt, stop |-> FALSE, caught |-> FALSE, fixed |-> newTilt = tilt,
     flat |-> FALSE, steps |-> 0]

\* The if statement's condition is false: the pass ends without an update.
KeepEstimate(tilt) ==
    [tilt |-> tilt, stop |-> FALSE, caught |-> FALSE, fixed |-> TRUE,
     flat |-> TRUE, steps |-> 0]

\* An update that divides by DerivativeFloor when the derivative is not
\* above it.
NewtonApply_DividesByFloor(tilt, error, derivative) ==
    IF FGt(FAbs(derivative), DerivativeFloor)
    THEN Continue(tilt, ClampTilt(FSub[tilt, FMul[FDiv[error, derivative], OneHalf]]))
    ELSE Continue(tilt, ClampTilt(FSub[tilt, FMul[FDiv[error, DerivativeFloor], OneHalf]]))

NewtonApply(tilt, error, derivative) ==
    IF FGt(FAbs(derivative), DerivativeFloor)
    THEN Continue(tilt, ClampTilt(FSub[tilt, FMul[FDiv[error, derivative], OneHalf]]))
    ELSE KeepEstimate(tilt)

NewtonUpdate(tilt, pixel, error, projectionDelta) ==
    IF projectionDelta.thrown THEN Break(tilt, TRUE)
    ELSE NewtonApply(tilt, error, FDiv[FSub[projectionDelta.value, pixel], delta])

NewtonDerive(tilt, pixel, error, targetDistance, focalLength, cameraHeight) ==
    IF FLt(FAbs(error), One) THEN Break(tilt, FALSE)
    ELSE NewtonUpdate(tilt, pixel, error,
             projectGroundPoint(targetDistance,
                 ProjectionParams(focalLength, MathMin(maxTilt, FAdd[tilt, delta]),
                                  cameraHeight)))

NewtonError(tilt, projection, targetDistance, focalLength, cameraHeight) ==
    IF projection.thrown THEN Break(tilt, TRUE)
    ELSE NewtonDerive(tilt, projection.value, FSub[projection.value, targetPixel],
                      targetDistance, focalLength, cameraHeight)

NewtonProject(tilt, targetDistance, focalLength, cameraHeight) ==
    NewtonError(tilt,
                projectGroundPoint(targetDistance,
                    ProjectionParams(focalLength, tilt, cameraHeight)),
                targetDistance, focalLength, cameraHeight)

NewtonStep(tilt0, targetDistance, focalLength, cameraHeight) ==
    NewtonProject(ClampTilt(tilt0), targetDistance, focalLength, cameraHeight)

\* The loop has ended after i passes, or its result is known after i passes
\* and the for statement runs the remaining ones to no effect.
NewtonEnd(i, s) == [s EXCEPT !.steps = IF s.fixed THEN NewtonIterations ELSE i]

\* The refinement loop from iteration i on, s being the outcome of the pass
\* before.  A pass that leaves the tilt as it was is repeated unchanged by
\* every later iteration, so the loop's result is known at that point.
RECURSIVE NewtonLoop(_, _, _, _, _)
NewtonLoop(i, s, targetDistance, focalLength, cameraHeight) ==
    IF i >= NewtonIterations \/ s.stop \/ s.fixed THEN NewtonEnd(i, s)
    ELSE NewtonLoop(i + 1, NewtonStep(s.tilt, targetDistance, focalLength, cameraHeight),
                    targetDistance, focalLength, cameraHeight)

\* findOptimalTilt: [tilt, caught], the tilt returned and whether a projection
\* threw and the catch block ended the refinement.
findOptimalTiltRun(targetDistance, focalLength, cameraHeight) ==
    NewtonLoop(0, [tilt |-> MathAtan[FDiv[cameraHeight, targetDistance]],
                   stop |-> FALSE, caught |-> FALSE, fixed |-> FALSE, flat |-> FALSE,
                   steps |-> 0],
               targetDistance, focalLength, cameraHeight)

findOptimalTilt(targetDistance, focalLength, cameraHeight) ==
    findOptimalTiltRun(targetDistance, focalLength, cameraHeight).tilt

\* The body of the try block of a search probe: the tilt for the distance,
\* then the gap between the marking and its predecessor at that tilt.
\* solverCaught records that the tilt solver's own catch block was entered,
\* steps the passes of its loop.
ProbeAtTilt(distance, focalLength, cameraHeight, run) ==
    [gap |-> computePixelGap(distance, FSub[distance, FromInt(LINE_SPACING)],
                 ProjectionParams(focalLength, run.tilt, cameraHeight)),
     solverCaught |-> run.caught, steps |-> run.steps]

Probe(distance, focalLength, cameraHeight) ==
    ProbeAtTilt(distance, focalLength, cameraHeight,
                findOptimalTiltRun(distance, focalLength, cameraHeight))

ProbeGap(distance, focalLength, cameraHeight) ==
    Probe(distance, focalLength, cameraHeight).gap

\* ------------------------------------------------------------------------
\* core/optimization: the maximum-distance search
\* ------------------------------------------------------------------------
InitialRight == 1000
maxIterations == 50

\* Math.floor(x / LINE_SPACING) * LINE_SPACING
FloorToSpacing(x) ==
    FMul[MathFloor(FDiv[x, FromInt(LINE_SPACING)]), FromInt(LINE_SPACING)]

\* A probe without the try block: a projection that throws is not caught.
ProbeVerdict_Uncaught(gapResult, minGap) ==
    IF gapResult.thrown THEN "thrown"
    ELSE IF FGe(gapResult.value, FromInt(minGap)) THEN "feasible" ELSE "infeasible"

\* What a probe of the search does with the try block's result: "feasible"
\* when the gap reaches minPixelGap, "infeasible" when it does not, and
\* "caught" when a projection threw and the catch block took over.
ProbeVerdict(gapResult, minGap) ==
    IF gapResult.thrown THEN "caught"
    ELSE IF FGe(gapResult.value, FromInt(minGap)) THEN "feasible" ELSE "infeasible"

\* feasible(d): the probe the search runs at the marking distance d.
Feasible(distance, focal, minGap, height) ==
    ProbeVerdict(ProbeGap(distance, focal, height), minGap) = "feasible"

\* F_MIN * level.  At the program's precision the product of the rounded
\* 4.8 and 25 rounds to 120 exactly; at MantBits bits the product of the
\* rounded 4.8 would fall one unit short of it.  The product is therefore
\* taken of the decimal 4.8 and rounded once, which is exact at level 25 as
\* it is in the program.
FMinTimes(level) == Ratio(48 * level, 10)

\* utils/math-helpers getFocalLength
getFocalLength(zoomLevel) == MathMin(FMinTimes(zoomLevel), FromInt(F_MAX))

\* A getter that returns the product without the clamp at F_MAX.
ZoomFocalLength_Unclamped(level) == FMinTimes(level)

\* The getter Zoom.focalLength
ZoomFocalLength(level) == MathMin(FMinTimes(level), FromInt(F_MAX))

\* A constructor that also refuses the levels above 25.
InvalidZoomLevel_Capped(level) == level < 1 \/ level > 25

\* The Zoom constructor's validation.
InvalidZoomLevel(level) == level < 1

\* An analyzeCameraView that does not validate the constraint.
ImpossibleConstraint_Never(minGap) == FALSE

\* analyzeCameraView's validation of the constraint.
ImpossibleConstraint(minGap) == minGap > SENSOR_RES_Y

\* An analyzeCameraView without the special case.
SingleLineCase_Never(minGap) == FALSE

\* analyzeCameraView's special case of exactly one visible marking.
SingleLineCase(minGap) == minGap = SENSOR_RES_Y

\* ------------------------------------------------------------------------
\* The calls that are analysed
\* ------------------------------------------------------------------------
MaxZoom == 26
MaxGap == 2000
MaxNegGap == 5

ZoomLevels == {0, 1, 25, MaxZoom}
Gaps == {-MaxNegGap, 0, 1, 10, 150, SENSOR_RES_Y, MaxGap}
Ops == {"cli", "analyzeCameraView", "computeMaxDistance"}

VARIABLES
    op,            \* the entry point that was called: the analyze command of
                   \* the command line ("cli") or a function of the library
    zoomLevel,     \* its zoom level argument
    minPixelGap,   \* its minPixelGap argument
    cameraHeight,  \* the camera height the core functions are given
    pc,            \* where the call stands
    focalLength,   \* focalLength, once it is computed
    left, right,   \* the search interval
    iterations,    \* the number of doublings made
    outcome,       \* "pending", "returned", or the kind of error thrown
    distance,      \* the distance returned
    lineCount,     \* the line count returned
    tiltAngle,     \* the tilt returned (radians)
    probes,        \* how many probes the search has run
    tiltCalls,     \* how many times findOptimalTilt was entered
    caughtProbes,  \* how many probes ended in the search's catch block
    solverCaught,  \* how many tilt solver runs ended in the solver's catch block
    capped,        \* the expansion loop was left because iterations = maxIterations
    heightArgument,\* the camera height argument: <<metres>>, or <<>> when omitted
    newtonSteps,   \* the most passes any tilt solver run of the call has made
    halvings,      \* the number of passes of the bisection loop
    earlier,       \* the calls completed before this one, arguments and results
    gapCall,       \* a direct call of computePixelGap: arguments and result
    solver,        \* a direct call of findOptimalTilt: arguments, loop and result
    parse,         \* a call of parseZoomRange: input, loop and result
    batch,         \* a call of processBatch: arguments, loop and results
    strips         \* a call of generateStripVisualizations: its result

vars == <<op, zoomLevel, minPixelGap, cameraHeight, pc, focalLength, left, right,
          iterations, outcome, distance, lineCount, tiltAngle, probes, tiltCalls,
          caughtProbes, solverCaught, capped, heightArgument, newtonSteps,
          halvings, earlier, gapCall, solver, parse, batch, strips>>

inputs == <<op, zoomLevel, minPixelGap, heightArgument>>
others == <<earlier, gapCall, solver, parse, batch, strips>>
counters == <<probes, tiltCalls, caughtProbes, solverCaught, newtonSteps>>
result == <<outcome, distance, lineCount, tiltAngle>>

\* No call of computePixelGap is under way.
NoGapCall == [pc |-> "none"]

\* No direct call of findOptimalTilt, no call of parseZoomRange and no call
\* of processBatch is under way.
NoSolverCall == [pc |-> "none"]
NoParse == [pc |-> "none"]
NoBatch == [pc |-> "none"]
NoStrips == [pc |-> "none"]
NoOtherCall ==
    solver = NoSolverCall /\ parse = NoParse /\ batch = NoBatch /\ strips = NoStrips

\* The locals and the result of a call that has not begun.
Fresh ==
    /\ pc = "start"
    /\ cameraHeight = Zero
    /\ focalLength = Zero
    /\ left = Zero
    /\ right = Zero
    /\ iterations = 0
    /\ outcome = "pending"
    /\ distance = Zero
    /\ lineCount = Zero
    /\ tiltAngle = Zero
    /\ probes = 0
    /\ tiltCalls = 0
    /\ caughtProbes = 0
    /\ solverCaught = 0
    /\ capped = FALSE
    /\ newtonSteps = 0
    /\ halvings = 0

Init ==
    /\ op \in Ops
    /\ zoomLevel \in ZoomLevels
    /\ minPixelGap \in Gaps
    /\ op = "computeMaxDistance" => zoomLevel >= 1   \* its documented domain
    /\ heightArgument = <<>>
    /\ earlier = <<>>
    /\ gapCall = NoGapCall
    /\ NoOtherCall
    /\ Fresh

\* A call ends by throwing an error of the given kind.
Throw(kind) ==
    /\ pc' = "done"
    /\ outcome' = kind
    /\ UNCHANGED <<distance, lineCount, tiltAngle>>

\* A call ends by returning.
Return(d, n, t) ==
    /\ pc' = "done"
    /\ outcome' = "returned"
    /\ distance' = d
    /\ lineCount' = n
    /\ tiltAngle' = t

\* A search whose doublings counter is not initialised by the call.
EnterSearch_StaleIterations(focal) ==
    /\ pc' = "expand"
    /\ focalLength' = focal
    /\ left' = Zero
    /\ right' = FromInt(InitialRight)
    /\ UNCHANGED <<iterations, counters, capped, halvings, result>>

\* The search's locals are initialised and the expansion loop is entered.
EnterSearch(focal) ==
    /\ pc' = "expand"
    /\ focalLength' = focal
    /\ left' = Zero
    /\ right' = FromInt(InitialRight)
    /\ iterations' = 0
    /\ UNCHANGED <<counters, capped, halvings, result>>

\* One run of the tilt solver is counted.
CountTilt(run) ==
    /\ tiltCalls' = tiltCalls + 1
    /\ newtonSteps' = IF run.steps > newtonSteps THEN run.steps ELSE newtonSteps
    /\ solverCaught' = solverCaught + (IF run.caught THEN 1 ELSE 0)

\* One probe of the search is counted.
CountProbe(probe, verdict) ==
    /\ probes' = probes + 1
    /\ tiltCalls' = tiltCalls + 1
    /\ newtonSteps' = IF probe.steps > newtonSteps THEN probe.steps ELSE newtonSteps
    /\ solverCaught' = solverCaught + (IF probe.solverCaught THEN 1 ELSE 0)
    /\ caughtProbes' = caughtProbes + (IF verdict = "caught" THEN 1 ELSE 0)

\* The analyze command parses its --gap option.
CliParseGap ==
    /\ pc = "start"
    /\ op = "cli"
    /\ IF minPixelGap < 0
       THEN Throw("GapOptionError")
       ELSE pc' = "action" /\ UNCHANGED result
    /\ UNCHANGED <<inputs, others, cameraHeight, focalLength, left, right, iterations,
                   counters, capped, halvings>>

\* The analyze command's action checks the zoom values it was given.
CliCheckZoom ==
    /\ pc = "action"
    /\ IF zoomLevel < 1
       THEN Throw("ZoomRangeError")
       ELSE pc' = "zoom" /\ UNCHANGED result
    /\ UNCHANGED <<inputs, others, cameraHeight, focalLength, left, right, iterations,
                   counters, capped, halvings>>

\* new Zoom(level), by the command's action or by the library's caller.
NewZoom ==
    /\ <<op, pc>> \in {<<"cli", "zoom">>, <<"analyzeCameraView", "start">>}
    /\ IF InvalidZoomLevel(zoomLevel)
       THEN Throw("InvalidZoomLevelError")
       ELSE pc' = "call" /\ UNCHANGED result
    /\ UNCHANGED <<inputs, others, cameraHeight, focalLength, left, right, iterations,
                   counters, capped, halvings>>

\* A cameraHeight parameter whose default is half the documented one.
CameraHeightOrDefault_Halved(height) ==
    IF height = <<>> THEN FromInt(CAMERA_HEIGHT \div 2) ELSE FromInt(height[1])

\* analyzeCameraView's parameter cameraHeight = DEFAULT_CAMERA_HEIGHT: the
\* argument, or the default when the argument is omitted.
CameraHeightOrDefault(height) ==
    IF height = <<>> THEN FromInt(CAMERA_HEIGHT) ELSE FromInt(height[1])

\* analyzeCameraView's special case returns after one run of the tilt solver.
SingleLine(focal, run) ==
    /\ Return(FromInt(LINE_SPACING), One, run.tilt)
    /\ CountTilt(run)
    /\ focalLength' = focal
    /\ UNCHANGED <<left, right, iterations, probes, caughtProbes, capped, halvings>>

\* analyzeCameraView, up to its return or its call of the search.
analyzeCameraView ==
    /\ pc = "call"
    /\ IF ImpossibleConstraint(minPixelGap)
       THEN /\ Throw("ImpossibleConstraintError")
            /\ UNCHANGED <<focalLength, left, right, iterations, counters, capped, halvings>>
       ELSE IF SingleLineCase(minPixelGap)
       THEN SingleLine(ZoomFocalLength(zoomLevel),
                findOptimalTiltRun(FromInt(LINE_SPACING), ZoomFocalLength(zoomLevel),
                                   CameraHeightOrDefault(heightArgument)))
       ELSE EnterSearch(ZoomFocalLength(zoomLevel))
    /\ cameraHeight' = CameraHeightOrDefault(heightArgument)
    /\ UNCHANGED <<inputs, others>>

\* computeMaxDistance, up to its return or its call of the search.
computeMaxDistance ==
    /\ pc = "start"
    /\ op = "computeMaxDistance"
    /\ IF minPixelGap > SENSOR_RES_Y
       THEN /\ Return(Zero, Zero, Zero)
            /\ UNCHANGED <<focalLength, left, right, iterations, counters, capped, halvings>>
       ELSE IF minPixelGap = SENSOR_RES_Y
       THEN /\ Return(Two, Zero, Zero)
            /\ UNCHANGED <<focalLength, left, right, iterations, counters, capped, halvings>>
       ELSE EnterSearch(getFocalLength(zoomLevel))
    /\ cameraHeight' = FromInt(CAMERA_HEIGHT)
    /\ UNCHANGED <<inputs, others>>

\* The expansion loop is left for the bisection loop.
LeaveExpansion(atCap) ==
    /\ pc' = "bisect"
    /\ capped' = atCap
    /\ UNCHANGED <<left, right, iterations, counters, halvings, result>>

\* An expansion loop that keeps the initial bound whatever the probe says.
ExpandOn_FixedBound(probe, verdict) ==
    /\ CountProbe(probe, verdict)
    /\ pc' = "bisect"
    /\ UNCHANGED <<left, right, iterations, capped, halvings, result>>

\* What the expansion loop does with the outcome of its probe.
ExpandOn(probe, verdict) ==
    /\ CountProbe(probe, verdict)
    /\ CASE verdict = "feasible" ->
                /\ left' = right
                /\ right' = FMul[right, Two]
                /\ iterations' = iterations + 1
                /\ UNCHANGED <<pc, capped, halvings, result>>
         [] verdict \in {"infeasible", "caught"} ->
                /\ pc' = "bisect"
                /\ UNCHANGED <<left, right, iterations, capped, halvings, result>>
         [] OTHER ->
                /\ Throw("Error")
                /\ UNCHANGED <<left, right, iterations, capped, halvings>>

ExpandProbe(probe) == ExpandOn(probe, ProbeVerdict(probe.gap, minPixelGap))

\* An expansion loop without the cap on the number of doublings.
ExpandStep_Uncapped ==
    /\ pc = "expand"
    /\ IF FLe(FloorToSpacing(right), Zero) THEN LeaveExpansion(FALSE)
       ELSE ExpandProbe(Probe(FloorToSpacing(right), focalLength, cameraHeight))
    /\ UNCHANGED <<inputs, others, cameraHeight, focalLength>>

\* One pass of the expansion loop of the search, its condition included.
ExpandStep ==
    /\ pc = "expand"
    /\ IF iterations >= maxIterations THEN LeaveExpansion(TRUE)
       ELSE IF FLe(FloorToSpacing(right), Zero) THEN LeaveExpansion(FALSE)
       ELSE ExpandProbe(Probe(FloorToSpacing(right), focalLength, cameraHeight))
    /\ UNCHANGED <<inputs, others, cameraHeight, focalLength>>

\* A bisection loop that moves its lower end whatever the probe says.
BisectOn_AlwaysLeft(mid, probe, verdict) ==
    /\ CountProbe(probe, verdict)
    /\ left' = mid
    /\ UNCHANGED <<right, pc, result>>

\* What the bisection loop does with the outcome of its probe at mid.
BisectOn(mid, probe, verdict) ==
    /\ CountProbe(probe, verdict)
    /\ CASE verdict = "feasible" ->
                left' = mid /\ UNCHANGED <<right, pc, result>>
         [] verdict \in {"infeasible", "caught"} ->
                right' = mid /\ UNCHANGED <<left, pc, result>>
         [] OTHER ->
                Throw("Error") /\ UNCHANGED <<left, right>>

BisectProbe(mid, probe) == BisectOn(mid, probe, ProbeVerdict(probe.gap, minPixelGap))

BisectAt(mid, testDistance) ==
    IF FLe(testDistance, Zero)
    THEN left' = mid /\ UNCHANGED <<right, pc, counters, result>>
    ELSE BisectProbe(mid, Probe(testDistance, focalLength, cameraHeight))

BisectMid(mid) == BisectAt(mid, FloorToSpacing(mid))

\* One pass of the bisection loop of the search.
BisectStep ==
    /\ pc = "bisect"
    /\ FGt(FSub[right, left], DISTANCE_TOLERANCE)
    /\ BisectMid(FDiv[FAdd[left, right], Two])
    /\ halvings' = halvings + 1
    /\ UNCHANGED <<inputs, others, cameraHeight, focalLength, iterations, capped>>

\* A return that reports the distance in the place of the line count.
FinishDetails_CountMetres(finalDistance, run) ==
    /\ Return(finalDistance, finalDistance, run.tilt)
    /\ CountTilt(run)
    /\ UNCHANGED <<probes, caughtProbes>>

\* A return that leaves out the tilt of the final distance.
FinishDetails_NoTilt(finalDistance, run) ==
    /\ Return(finalDistance, FDiv[finalDistance, FromInt(LINE_SPACING)], Zero)
    /\ CountTilt(run)
    /\ UNCHANGED <<probes, caughtProbes>>

\* findMaximumDistanceWithDetails' return for a final distance above zero.
FinishDetails(finalDistance, run) ==
    /\ Return(finalDistance, FDiv[finalDistance, FromInt(LINE_SPACING)], run.tilt)
    /\ CountTilt(run)
    /\ UNCHANGED <<probes, caughtProbes>>

FinishAt(finalDistance) ==
    IF op = "computeMaxDistance"
    THEN Return(finalDistance, Zero, Zero) /\ UNCHANGED counters
    ELSE IF finalDistance = Zero
    THEN Return(Zero, Zero, Zero) /\ UNCHANGED counters
    ELSE FinishDetails(finalDistance,
                       findOptimalTiltRun(finalDistance, focalLength, cameraHeight))

\* The bisection loop ends and the search returns to the entry point, which
\* returns to its caller.
Finish ==
    /\ pc = "bisect"
    /\ ~FGt(FSub[right, left], DISTANCE_TOLERANCE)
    /\ FinishAt(FloorToSpacing(left))
    /\ UNCHANGED <<inputs, others, cameraHeight, focalLength, left, right, iterations,
                   capped, halvings>>

Next ==
    \/ CliParseGap
    \/ CliCheckZoom
    \/ NewZoom
    \/ analyzeCameraView
    \/ computeMaxDistance
    \/ ExpandStep
    \/ BisectStep
    \/ Finish

Spec == Init /\ [][Next]_vars

\* ------------------------------------------------------------------------
\* Several calls in a row, as the batch processor and the tests make them
\* ------------------------------------------------------------------------
MaxCalls == 2

PairZooms == {1, MaxZoom - 2, MaxZoom - 1}
PairGaps == {0, 10, SENSOR_RES_Y - 1}
PairHeights == {<<>>, <<CAMERA_HEIGHT + 10>>}

InitCalls ==
    /\ op \in {"analyzeCameraView", "computeMaxDistance"}
    /\ zoomLevel \in PairZooms
    /\ minPixelGap \in PairGaps
    /\ heightArgument \in (IF op = "analyzeCameraView" THEN PairHeights ELSE {<<>>})
    /\ earlier = <<>>
    /\ gapCall = NoGapCall
    /\ NoOtherCall
    /\ Fresh

\* The call that has just ended: its arguments, the height it ran at and
\* what it returned or threw.
ThisCall ==
    [op |-> op, zoomLevel |-> zoomLevel, minPixelGap |-> minPixelGap,
     heightArgument |-> heightArgument, cameraHeight |-> cameraHeight,
     outcome |-> outcome, distance |-> distance, lineCount |-> lineCount,
     tiltAngle |-> tiltAngle, focalLength |-> focalLength]

\* The arguments of the first call of the row.
FirstArguments ==
    IF earlier = <<>> THEN <<zoomLevel, minPixelGap, heightArgument>>
    ELSE <<earlier[1].zoomLevel, earlier[1].minPixelGap, earlier[1].heightArgument>>

\* The arguments a later call is made with: those of the first call again,
\* the next zoom level, the next gap, or the default height given explicitly.
NextArguments(first) ==
    {first, <<first[1] + 1, first[2], first[3]>>, <<first[1], first[2] + 1, first[3]>>}
        \cup (IF op = "analyzeCameraView" THEN {<<first[1], first[2], <<CAMERA_HEIGHT>>>>}
              ELSE {})

\* The caller makes its next call.  The parameters are bound anew; the
\* locals left, right and iterations hold whatever they held until the call
\* initialises them.
CallAgain ==
    /\ pc = "done"
    /\ Len(earlier) < MaxCalls - 1
    /\ earlier' = Append(earlier, ThisCall)
    /\ \E next \in NextArguments(FirstArguments) :
           /\ zoomLevel' = next[1]
           /\ minPixelGap' = next[2]
           /\ heightArgument' = next[3]
    /\ pc' = "start"
    /\ cameraHeight' = Zero
    /\ focalLength' = Zero
    /\ outcome' = "pending"
    /\ distance' = Zero
    /\ lineCount' = Zero
    /\ tiltAngle' = Zero
    /\ probes' = 0
    /\ tiltCalls' = 0
    /\ caughtProbes' = 0
    /\ solverCaught' = 0
    /\ newtonSteps' = 0
    /\ capped' = FALSE
    /\ halvings' = 0
    /\ UNCHANGED <<op, gapCall, solver, parse, batch, strips, left, right, iterations>>

NextCalls ==
    \/ NewZoom
    \/ analyzeCameraView
    \/ computeMaxDistance
    \/ ExpandStep
    \/ BisectStep
    \/ Finish
    \/ CallAgain

SpecCalls == InitCalls /\ [][NextCalls]_vars

\* ------------------------------------------------------------------------
\* The plain search and the detailed search on the same arguments, as the
\* tests compare them
\* ------------------------------------------------------------------------
DetailZooms == {1, MaxZoom - 1}
DetailGaps == {0, 10, 150}

InitDetails ==
    /\ op = "computeMaxDistance"
    /\ zoomLevel \in DetailZooms
    /\ minPixelGap \in DetailGaps
    /\ heightArgument = <<>>
    /\ earlier = <<>>
    /\ gapCall = NoGapCall
    /\ NoOtherCall
    /\ Fresh

\* After computeMaxDistance, which runs findMaximumDistance, the caller runs
\* analyzeCameraView, which runs findMaximumDistanceWithDetails, with the
\* same zoom level and gap.
CallDetailed ==
    /\ pc = "done"
    /\ op = "computeMaxDistance"
    /\ earlier' = Append(earlier, ThisCall)
    /\ op' = "analyzeCameraView"
    /\ pc' = "start"
    /\ cameraHeight' = Zero
    /\ focalLength' = Zero
    /\ outcome' = "pending"
    /\ distance' = Zero
    /\ lineCount' = Zero
    /\ tiltAngle' = Zero
    /\ probes' = 0
    /\ tiltCalls' = 0
    /\ caughtProbes' = 0
    /\ solverCaught' = 0
    /\ newtonSteps' = 0
    /\ capped' = FALSE
    /\ halvings' = 0
    /\ UNCHANGED <<zoomLevel, minPixelGap, heightArgument, gapCall, solver, parse,
                   batch, strips, left, right, iterations>>

NextDetails ==
    \/ computeMaxDistance
    \/ NewZoom
    \/ analyzeCameraView
    \/ ExpandStep
    \/ BisectStep
    \/ Finish
    \/ CallDetailed

SpecDetails == InitDetails /\ [][NextDetails]_vars

\* ------------------------------------------------------------------------
\* Direct calls of computePixelGap, as the renderer and the tests make them
\* ------------------------------------------------------------------------
MaxMarking == 12

\* The distances of the first markings, and two far ones.
MarkingDistances ==
    {FromInt(n * LINE_SPACING) : n \in 1..MaxMarking} \cup {FromInt(100), FromInt(1000)}

\* Tilts from the solver's lower limit to its upper limit.
ProjectionTilts ==
    {minTilt, maxTilt} \cup {Ratio(n, 10) : n \in {1, 3, 5, 8, 10, 12, 15}}

ProjectionFocalLengths == {ZoomFocalLength(1), ZoomFocalLength(MaxZoom)}

\* No projection has been made yet.
NoProjection == [thrown |-> FALSE, value |-> Zero]

InitProjection ==
    /\ op = "computePixelGap"
    /\ zoomLevel = 1
    /\ minPixelGap = 0
    /\ heightArgument = <<>>
    /\ earlier = <<>>
    /\ NoOtherCall
    /\ Fresh
    /\ gapCall \in [pc : {"current"},
                    lineDistance : MarkingDistances,
                    prevLineDistance : MarkingDistances,
                    params : [focalLength : ProjectionFocalLengths,
                              tiltAngle : ProjectionTilts,
                              cameraHeight : {FromInt(CAMERA_HEIGHT)}],
                    currentProjection : {NoProjection},
                    prevProjection : {NoProjection},
                    gap : {NoProjection}]

\* computePixelGap has projected lineDistance: it goes on, or the
\* projection threw and so does the call.
GapCallAfterCurrent(currentProjection) ==
    [gapCall EXCEPT !.pc = IF currentProjection.thrown THEN "done" ELSE "prev",
                    !.currentProjection = currentProjection,
                    !.gap = IF currentProjection.thrown THEN Thrown ELSE NoProjection]

\* computePixelGap has projected prevLineDistance: it returns the gap, or
\* the projection threw and so does the call.
GapCallAfterPrev(prevProjection) ==
    [gapCall EXCEPT !.pc = "done",
                    !.prevProjection = prevProjection,
                    !.gap = GapBetween(gapCall.currentProjection, prevProjection)]

\* const currentProjection = projectGroundPoint(lineDistance, params)
ProjectCurrent ==
    /\ gapCall.pc = "current"
    /\ gapCall' = GapCallAfterCurrent(projectGroundPoint(gapCall.lineDistance,
                                                         gapCall.params))
    /\ UNCHANGED <<inputs, earlier, solver, parse, batch, strips, cameraHeight, focalLength,
                   left, right, iterations, counters, capped, halvings, pc, result>>

\* const prevProjection = projectGroundPoint(prevLineDistance, params), and
\* the return of the absolute difference.
ProjectPrev ==
    /\ gapCall.pc = "prev"
    /\ gapCall' = GapCallAfterPrev(projectGroundPoint(gapCall.prevLineDistance,
                                                      gapCall.params))
    /\ UNCHANGED <<inputs, earlier, solver, parse, batch, strips, cameraHeight, focalLength,
                   left, right, iterations, counters, capped, halvings, pc, result>>

NextProjection ==
    \/ ProjectCurrent
    \/ ProjectPrev

SpecProjection == InitProjection /\ [][NextProjection]_vars

\* ------------------------------------------------------------------------
\* Direct calls of findOptimalTilt, as the tests make them, pass by pass
\* ------------------------------------------------------------------------
FarTarget == 4000

\* Target distances: short of the camera height, about it, far beyond it.
SolverDistances ==
    {FromInt(n) : n \in {1, LINE_SPACING, CAMERA_HEIGHT, CAMERA_HEIGHT + LINE_SPACING,
                         100, InitialRight, FarTarget \div 2 + 100, FarTarget}}

\* The focal lengths of the zoom range, and one far below it, for which the
\* refinement runs into the upper limit of the tilt.
SolverFocalLengths == {ZoomFocalLength(1), ZoomFocalLength(MaxZoom), Ratio(5, 1000)}

SolverHeights == {FromInt(CAMERA_HEIGHT), FromInt(CAMERA_HEIGHT + 10)}

InitSolver ==
    /\ op = "findOptimalTilt"
    /\ zoomLevel = 1
    /\ minPixelGap = 0
    /\ heightArgument = <<>>
    /\ earlier = <<>>
    /\ gapCall = NoGapCall
    /\ parse = NoParse
    /\ batch = NoBatch
    /\ strips = NoStrips
    /\ Fresh
    /\ solver \in [pc : {"estimate"},
                   targetDistance : SolverDistances,
                   focalLength : SolverFocalLengths,
                   cameraHeight : SolverHeights,
                   i : {0},
                   tilt : {Zero},
                   flat : {FALSE},
                   caught : {FALSE}]

\* let tilt = Math.atan(cameraHeight / targetDistance), and the loop's i = 0
SolverEstimate ==
    /\ solver.pc = "estimate"
    /\ solver' = [solver EXCEPT !.pc = "loop",
                                !.tilt = MathAtan[FDiv[solver.cameraHeight,
                                                       solver.targetDistance]]]
    /\ UNCHANGED <<inputs, earlier, gapCall, parse, batch, strips, cameraHeight, focalLength,
                   left, right, iterations, counters, capped, halvings, pc, result>>

\* The solver after the pass whose outcome is s: a break ends the loop and
\* the function returns the tilt; otherwise i++ and the loop goes on.
SolverAfter(s) ==
    IF s.stop
    THEN [solver EXCEPT !.pc = "done", !.tilt = s.tilt, !.caught = s.caught,
                        !.flat = FALSE]
    ELSE [solver EXCEPT !.i = solver.i + 1, !.tilt = s.tilt, !.flat = s.flat]

\* One pass of the for loop.
SolverPass ==
    /\ solver.pc = "loop"
    /\ solver.i < NewtonIterations
    /\ solver' = SolverAfter(NewtonStep(solver.tilt, solver.targetDistance,
                                        solver.focalLength, solver.cameraHeight))
    /\ UNCHANGED <<inputs, earlier, gapCall, parse, batch, strips, cameraHeight, focalLength,
                   left, right, iterations, counters, capped, halvings, pc, result>>

\* The loop's condition i < 20 fails and the function returns the tilt.
SolverReturn ==
    /\ solver.pc = "loop"
    /\ solver.i >= NewtonIterations
    /\ solver' = [solver EXCEPT !.pc = "done"]
    /\ UNCHANGED <<inputs, earlier, gapCall, parse, batch, strips, cameraHeight, focalLength,
                   left, right, iterations, counters, capped, halvings, pc, result>>

NextSolver ==
    \/ SolverEstimate
    \/ SolverPass
    \/ SolverReturn

SpecSolver == InitSolver /\ [][NextSolver]_vars

\* ------------------------------------------------------------------------
\* utils/zoom-range-parser: strings are sequences of characters
\* ------------------------------------------------------------------------
DigitChars == {"0", "1", "2", "3", "4", "5", "6", "7", "8", "9"}

DigitValue(c) ==
    CASE c = "0" -> 0 [] c = "1" -> 1 [] c = "2" -> 2 [] c = "3" -> 3 [] c = "4" -> 4
      [] c = "5" -> 5 [] c = "6" -> 6 [] c = "7" -> 7 [] c = "8" -> 8 [] c = "9" -> 9

\* String.prototype.trim
RECURSIVE TrimStart(_)
TrimStart(str) ==
    IF str # <<>> /\ Head(str) = " " THEN TrimStart(Tail(str)) ELSE str

RECURSIVE TrimEnd(_)
TrimEnd(str) ==
    IF str # <<>> /\ str[Len(str)] = " " THEN TrimEnd(SubSeq(str, 1, Len(str) - 1))
    ELSE str

Trim(str) == TrimEnd(TrimStart(str))

\* String.prototype.split(separator): the pieces between the separators,
\* the empty ones included; current is the piece being read from index i.
RECURSIVE SplitFrom(_, _, _, _, _)
SplitFrom(str, separator, i, current, pieces) ==
    IF i > Len(str) THEN Append(pieces, current)
    ELSE IF str[i] = separator
    THEN SplitFrom(str, separator, i + 1, <<>>, Append(pieces, current))
    ELSE SplitFrom(str, separator, i + 1, Append(current, str[i]), pieces)

Split(str, separator) == SplitFrom(str, separator, 1, <<>>, <<>>)

\* String.prototype.includes(character)
Includes(str, c) == \E i \in DOMAIN str : str[i] = c

\* /^\d+$/.test(str) and /^-?\d+$/.test(str)
AllDigits(str) == str # <<>> /\ \A i \in DOMAIN str : str[i] \in DigitChars

IsIntegerText(str) ==
    IF str # <<>> /\ Head(str) = "-" THEN AllDigits(Tail(str)) ELSE AllDigits(str)

\* parseInt(str, 10) of a text that passed the test
RECURSIVE DigitsValue(_, _)
DigitsValue(str, value) ==
    IF str = <<>> THEN value
    ELSE DigitsValue(Tail(str), value * 10 + DigitValue(Head(str)))

parseInt(str) ==
    IF Head(str) = "-" THEN -DigitsValue(Tail(str), 0) ELSE DigitsValue(str, 0)

\* parseInteger: <<n>> for the number n, <<>> for null
parseInteger(str) == IF IsIntegerText(str) THEN <<parseInt(str)>> ELSE <<>>

\* What one pass of the loop over the parts does: it pushes values (none
\* for an empty part) or makes the function return a failure.
Pushed(newValues) == [failed |-> FALSE, values |-> newValues]
Failed(error, text) == [failed |-> TRUE, error |-> error, text |-> text]

\* for (let i = start; i <= end; i++) values.push(i)
RangeValues(start, end) == [k \in 1..(end - start + 1) |-> start + k - 1]

RangeNumbers(startStr, endStr, start, end) ==
    IF start = <<>> THEN Failed("Invalid number", startStr)
    ELSE IF end = <<>> THEN Failed("Invalid number", endStr)
    ELSE IF start[1] < 1 THEN Failed("Zoom values must be >= 1", <<>>)
    ELSE IF end[1] < 1 THEN Failed("Zoom values must be >= 1", <<>>)
    ELSE IF start[1] > end[1] THEN Failed("Invalid range: start must be <= end", <<>>)
    ELSE Pushed(RangeValues(start[1], end[1]))

RangeTexts(trimmedPart, startStr, endStr) ==
    IF startStr = <<>> \/ endStr = <<>> THEN Failed("Invalid range format", trimmedPart)
    ELSE RangeNumbers(startStr, endStr, parseInteger(startStr), parseInteger(endStr))

RangePart(trimmedPart, rangeParts) ==
    IF Len(rangeParts) = 3 /\ rangeParts[1] = <<>>
    THEN RangeTexts(trimmedPart, <<"-">> \o Trim(rangeParts[2]), Trim(rangeParts[3]))
    ELSE IF Len(rangeParts) = 2
    THEN RangeTexts(trimmedPart, Trim(rangeParts[1]), Trim(rangeParts[2]))
    ELSE Failed("Invalid range format", trimmedPart)

SinglePart(trimmedPart, value) ==
    IF value = <<>> THEN Failed("Invalid number", trimmedPart)
    ELSE IF value[1] < 1 THEN Failed("Zoom values must be >= 1", <<>>)
    ELSE Pushed(<<value[1]>>)

PartOutcome(trimmedPart) ==
    IF trimmedPart = <<>> THEN Pushed(<<>>)
    ELSE IF Includes(trimmedPart, "-") /\ ~IsIntegerText(trimmedPart)
    THEN RangePart(trimmedPart, Split(trimmedPart, "-"))
    ELSE SinglePart(trimmedPart, parseInteger(trimmedPart))

\* The elements of a sequence.
Elements(seq) == {seq[i] : i \in DOMAIN seq}

\* The numbers of an array of one-element tuples.
Unwrap(kept) == [i \in DOMAIN kept |-> kept[i][1]]

\* The first occurrence of every value, each as a one-element tuple.
FirstOccurrences(values) ==
    SelectSeq([i \in DOMAIN values |->
                  IF \E j \in 1..(i - 1) : values[j] = values[i] THEN <<>>
                  ELSE <<values[i]>>],
              LAMBDA kept : kept # <<>>)

\* A result that keeps the duplicates.
Dedupe_None(values) == values

\* Array.from(new Set(values)): the first occurrence of every value, in the
\* order of the array.
Dedupe(values) == Unwrap(FirstOccurrences(values))

\* values.sort((a, b) => a - b), by insertion: v goes behind the elements
\* that are not above it.
InsertAt(sorted, v, k) == SubSeq(sorted, 1, k) \o <<v>> \o SubSeq(sorted, k + 1, Len(sorted))

InsertSorted(sorted, v) ==
    InsertAt(sorted, v, Cardinality({i \in DOMAIN sorted : sorted[i] <= v}))

RECURSIVE SortFrom(_, _, _)
SortFrom(values, i, sorted) ==
    IF i > Len(values) THEN sorted
    ELSE SortFrom(values, i + 1, InsertSorted(sorted, values[i]))

SortNumeric(values) == SortFrom(values, 1, <<>>)

\* const uniqueValues = Array.from(new Set(values)).sort((a, b) => a - b)
UniqueValues(values) == SortNumeric(Dedupe(values))

\* ------------------------------------------------------------------------
\* Calls of parseZoomRange.  An input is written as parts joined by commas;
\* each part is listed with the zoom values it stands for when it is well
\* formed.
\* ------------------------------------------------------------------------
MaxParts == 3

Part(text, denotes) == [text |-> text, denotes |-> denotes]

WrittenParts ==
    { Part(<<>>, {}),
      Part(<<" ">>, {}),
      Part(<<"1">>, {1}),
      Part(<<"0">>, {0}),
      Part(<<"-", "5">>, {-5}),
      Part(<<"1", "0">>, {10}),
      Part(<<"1", "-", "3">>, 1..3),
      Part(<<"2", "-", "1", "1">>, 2..11),
      Part(<<" ", "2", " ", "-", " ", "4", " ">>, 2..4),
      Part(<<"3", "-", "1">>, {}),
      Part(<<"-", "2", "-", "3">>, -2..3),
      Part(<<"1", "-">>, {}),
      Part(<<"1", " ", "2">>, {}) }

\* The parts joined by commas.
RECURSIVE JoinFrom(_, _, _)
JoinFrom(written, i, str) ==
    IF i > Len(written) THEN str
    ELSE JoinFrom(written, i + 1,
                  IF i = 1 THEN written[i].text ELSE str \o <<",">> \o written[i].text)

Join(written) == JoinFrom(written, 1, <<>>)

NoResult == [success |-> FALSE, error |-> "", text |-> <<>>, values |-> <<>>]

InitParse ==
    /\ op = "parseZoomRange"
    /\ zoomLevel = 1
    /\ minPixelGap = 0
    /\ heightArgument = <<>>
    /\ earlier = <<>>
    /\ gapCall = NoGapCall
    /\ solver = NoSolverCall
    /\ batch = NoBatch
    /\ strips = NoStrips
    /\ Fresh
    /\ \E n \in 0..MaxParts :
           \E written \in [1..n -> WrittenParts] :
               parse = [pc |-> "start", written |-> written, input |-> Join(written),
                        parts |-> <<>>, next |-> 1, values |-> <<>>,
                        result |-> NoResult]

ParseFailure(error, text) ==
    [parse EXCEPT !.pc = "done",
                  !.result = [success |-> FALSE, error |-> error, text |-> text,
                              values |-> <<>>]]

\* The function up to its loop: trim, the two checks, split.
ParseBegin(trimmed) ==
    IF trimmed = <<>> THEN ParseFailure("Empty input", <<>>)
    ELSE IF trimmed = <<",">> THEN ParseFailure("Invalid format", <<>>)
    ELSE [parse EXCEPT !.pc = "parts", !.parts = Split(trimmed, ","), !.next = 1,
                       !.values = <<>>]

ParseStart ==
    /\ parse.pc = "start"
    /\ parse' = ParseBegin(Trim(parse.input))
    /\ UNCHANGED <<inputs, earlier, gapCall, solver, batch, strips, cameraHeight, focalLength,
                   left, right, iterations, counters, capped, halvings, pc, result>>

ParseAfter(part) ==
    IF part.failed THEN ParseFailure(part.error, part.text)
    ELSE [parse EXCEPT !.next = parse.next + 1, !.values = parse.values \o part.values]

\* One pass of the loop over the parts.
ParsePart ==
    /\ parse.pc = "parts"
    /\ parse.next <= Len(parse.parts)
    /\ parse' = ParseAfter(PartOutcome(Trim(parse.parts[parse.next])))
    /\ UNCHANGED <<inputs, earlier, gapCall, solver, batch, strips, cameraHeight, focalLength,
                   left, right, iterations, counters, capped, halvings, pc, result>>

\* The loop is over: the values are deduplicated, sorted and returned.
ParseFinish ==
    /\ parse.pc = "parts"
    /\ parse.next > Len(parse.parts)
    /\ parse' = [parse EXCEPT !.pc = "done",
                              !.result = [success |-> TRUE, error |-> "", text |-> <<>>,
                                          values |-> UniqueValues(parse.values)]]
    /\ UNCHANGED <<inputs, earlier, gapCall, solver, batch, strips, cameraHeight, focalLength,
                   left, right, iterations, counters, capped, halvings, pc, result>>

NextParse ==
    \/ ParseStart
    \/ ParsePart
    \/ ParseFinish

SpecParse == InitParse /\ [][NextParse]_vars

\* ------------------------------------------------------------------------
\* rendering/strip-visualizer
\* ------------------------------------------------------------------------
\* The whole number that a float stands for.
FloatToInt(x) == IF x[2] >= 0 THEN x[1] * Pow2(x[2]) ELSE x[1] \div Pow2(-x[2])

\* The analysis a call has returned, as a CameraViewAnalysis.
ThisAnalysis ==
    [distanceInMeters |-> distance, tiltAngle |-> tiltAngle, lineCount |-> lineCount,
     focalLength |-> focalLength]

StripError(message) == [thrown |-> TRUE, error |-> message, visualizations |-> <<>>]
StripList(visualizations) ==
    [thrown |-> FALSE, error |-> "", visualizations |-> visualizations]

StripParams(analysis, height) ==
    ProjectionParams(analysis.focalLength, analysis.tiltAngle,
                     CameraHeightOrDefault(height))

\* The projection of every line i + 1, at the distance (i + 1) * LINE_SPACING.
LineProjections(analysis, height) ==
    [lineIndex \in 1..FloatToInt(analysis.lineCount) |->
        projectGroundPoint(FromInt(lineIndex * LINE_SPACING),
                           StripParams(analysis, height))]

\* The loop body goes on to push a strip: the projection did not throw and
\* yPixel is within -0.5 .. SENSOR_RES_Y + 0.5.
StripVisible(projection) ==
    /\ ~projection.thrown
    /\ ~FLt(projection.value, Ratio(-1, 2))
    /\ ~FGt(projection.value, Ratio(2 * SENSOR_RES_Y + 1, 2))

\* clampedYPixel of the strips that are pushed, in the order of the lines.
ClampedPixel(projection) ==
    MathMax(Zero, MathMin(FromInt(SENSOR_RES_Y), projection.value))

VisiblePixels(projections) ==
    [k \in DOMAIN SelectSeq(projections, StripVisible) |->
        ClampedPixel(SelectSeq(projections, StripVisible)[k])]

\* The strips pushed: previousYPixel is the clamped pixel of the strip
\* pushed before, and the last two strips (or the only one) are highlighted
\* after the loop.
StripsOf(pixels) ==
    [k \in DOMAIN pixels |->
        [position |-> FDiv[pixels[k], FromInt(SENSOR_RES_Y)],
         distance |-> IF k = 1 THEN Zero ELSE FAbs(FSub[pixels[k], pixels[k - 1]]),
         isHighlighted |-> k >= Len(pixels) - 1]]

\* generateStripVisualizations(analysis, cameraHeight) for an analysis
\* object whose fields are numbers.
generateStripVisualizations(analysis, height) ==
    IF FLt(analysis.lineCount, Zero) THEN StripError("Invalid line count in analysis")
    ELSE IF FLe(analysis.focalLength, Zero)
    THEN StripError("Invalid focal length in analysis")
    ELSE IF FLe(analysis.distanceInMeters, Zero)
    THEN StripError("Invalid distance in analysis")
    ELSE IF analysis.lineCount = Zero THEN StripList(<<>>)
    ELSE StripList(StripsOf(VisiblePixels(LineProjections(analysis, height))))

\* ------------------------------------------------------------------------
\* Calls of generateStripVisualizations: on the analysis that
\* analyzeCameraView has returned, and on analyses written out by the caller
\* ------------------------------------------------------------------------
StripZooms == {1, MaxZoom - 1}
StripGaps == {10, 150, SENSOR_RES_Y}

\* Analyses written out by the caller: 10 m, 30 degrees, 50 mm.
WrittenLineCounts == {-1, 0, 5}

InitStrips ==
    /\ heightArgument = <<>>
    /\ earlier = <<>>
    /\ gapCall = NoGapCall
    /\ NoOtherCall
    /\ \/ /\ op = "analyzeCameraView"
          /\ zoomLevel \in StripZooms
          /\ minPixelGap \in StripGaps
          /\ Fresh
       \/ /\ op = "generateStripVisualizations"
          /\ zoomLevel = 1
          /\ minPixelGap = 0
          /\ pc = "done"
          /\ outcome = "returned"
          /\ distance = FromInt(10)
          /\ lineCount \in {FromInt(n) : n \in WrittenLineCounts}
          /\ tiltAngle = FDiv[MathPI, FromInt(6)]
          /\ focalLength = FromInt(50)
          /\ cameraHeight = Zero
          /\ left = Zero
          /\ right = Zero
          /\ iterations = 0
          /\ probes = 0
          /\ tiltCalls = 0
          /\ caughtProbes = 0
          /\ solverCaught = 0
          /\ capped = FALSE
          /\ newtonSteps = 0
          /\ halvings = 0

\* The caller passes the analysis it holds to generateStripVisualizations.
Visualize ==
    /\ pc = "done"
    /\ outcome = "returned"
    /\ strips.pc = "none"
    /\ batch = NoBatch
    /\ strips' = [pc |-> "done",
                  result |-> generateStripVisualizations(ThisAnalysis, heightArgument)]
    /\ UNCHANGED <<inputs, earlier, gapCall, solver, parse, batch, cameraHeight,
                   focalLength, left, right, iterations, counters, capped, halvings,
                   pc, result>>

NextStrips ==
    \/ NewZoom
    \/ analyzeCameraView
    \/ ExpandStep
    \/ BisectStep
    \/ Finish
    \/ Visualize

SpecStrips == InitStrips /\ [][NextStrips]_vars

\* ------------------------------------------------------------------------
\* utils/batch-processor: processBatch
\* ------------------------------------------------------------------------
\* A BatchResult.  An optional field is the empty sequence when it is
\* absent and a sequence holding the value when it is set; the error message
\* is written as its parts.
ImagePrefix == "Analysis succeeded but image generation failed"

\* results.push({ zoomLevel, success: false, error }) of the outer catch.
FailedLevel(level, message) ==
    [zoomLevel |-> level, success |-> FALSE, analysis |-> <<>>, imagePath |-> <<>>,
     error |-> <<message>>]

\* const result = { zoomLevel, success: true, analysis }.
SucceededLevel(level, analysis) ==
    [zoomLevel |-> level, success |-> TRUE, analysis |-> <<analysis>>,
     imagePath |-> <<>>, error |-> <<>>]

\* result.imagePath = imageResult.outputPath.
ImageWritten(levelResult, path) == [levelResult EXCEPT !.imagePath = <<path>>]

\* An inner catch that gives the level up altogether.
ImageFailed_WholeLevelFails(levelResult, message) ==
    [levelResult EXCEPT !.success = FALSE, !.error = <<ImagePrefix, message>>]

\* The inner catch: result.error is set, the rest of the result is kept.
ImageFailed(levelResult, message) ==
    [levelResult EXCEPT !.error = <<ImagePrefix, message>>]

\* The output path of a level's image.
OutputPath(level, gap) == <<"./output/camera-strips", level, gap>>

\* An outer catch that leaves the loop.
AfterFailure_Stops(index, zoomLevels) == Len(zoomLevels)

\* The loop goes on with the next zoom level after the outer catch.
AfterFailure(index, zoomLevels) == index

\* What generateStripDemoImage throws before it renders, "" when it gets
\* as far as rendering.  Its own analyzeCameraView call has the arguments of
\* the call processBatch has just made and returns the same analysis.
DemoImageError(analysis, height) ==
    IF FLt(analysis.lineCount, One) THEN "NoVisibleStripsError"
    ELSE IF generateStripVisualizations(analysis, height).thrown
    THEN generateStripVisualizations(analysis, height).error
    ELSE ""

MaxBatch == 2
BatchZooms == {0, 1, MaxZoom - 1}
BatchGaps == {150, SENSOR_RES_Y + 1}

BatchInputs(n) == [1..n -> BatchZooms]

InitBatch ==
    /\ op = "analyzeCameraView"
    /\ zoomLevel = 0
    /\ minPixelGap \in BatchGaps
    /\ heightArgument = <<>>
    /\ earlier = <<>>
    /\ gapCall = NoGapCall
    /\ solver = NoSolverCall
    /\ parse = NoParse
    /\ strips = NoStrips
    /\ \E n \in 0..MaxBatch : \E levels \in BatchInputs(n) : \E image \in BOOLEAN :
           batch = [pc |-> "loop", zoomLevels |-> levels, generateImage |-> image,
                    index |-> 0, results |-> <<>>, outcomes |-> <<>>, images |-> <<>>]
    /\ pc = "idle"
    /\ cameraHeight = Zero
    /\ focalLength = Zero
    /\ left = Zero
    /\ right = Zero
    /\ iterations = 0
    /\ outcome = "pending"
    /\ distance = Zero
    /\ lineCount = Zero
    /\ tiltAngle = Zero
    /\ probes = 0
    /\ tiltCalls = 0
    /\ caughtProbes = 0
    /\ solverCaught = 0
    /\ capped = FALSE
    /\ newtonSteps = 0
    /\ halvings = 0

\* for (const zoomLevel of zoomLevels): the next level is bound and the try
\* block is entered.
BatchLevel ==
    /\ batch.pc = "loop"
    /\ batch.index < Len(batch.zoomLevels)
    /\ batch' = [batch EXCEPT !.pc = "analysis", !.index = batch.index + 1]
    /\ zoomLevel' = batch.zoomLevels[batch.index + 1]
    /\ pc' = "start"
    /\ cameraHeight' = Zero
    /\ focalLength' = Zero
    /\ outcome' = "pending"
    /\ distance' = Zero
    /\ lineCount' = Zero
    /\ tiltAngle' = Zero
    /\ probes' = 0
    /\ tiltCalls' = 0
    /\ caughtProbes' = 0
    /\ solverCaught' = 0
    /\ newtonSteps' = 0
    /\ capped' = FALSE
    /\ halvings' = 0
    /\ UNCHANGED <<op, minPixelGap, heightArgument, earlier, gapCall, solver, parse,
                   strips, left, right, iterations>>

\* new Zoom and analyzeCameraView have thrown: the outer catch pushes the
\* level's failed result.
BatchCatch ==
    /\ batch.pc = "analysis"
    /\ pc = "done"
    /\ outcome # "returned"
    /\ batch' = [batch EXCEPT
                     !.pc = "loop",
                     !.index = AfterFailure(batch.index, batch.zoomLevels),
                     !.results = Append(batch.results, FailedLevel(zoomLevel, outcome)),
                     !.outcomes = Append(batch.outcomes, outcome),
                     !.images = Append(batch.images, "none")]
    /\ UNCHANGED <<inputs, earlier, gapCall, solver, parse, strips, cameraHeight,
                   focalLength, left, right, iterations, counters, capped, halvings,
                   pc, result>>

\* The analysis has returned and no image is asked for: the result is pushed.
BatchPush ==
    /\ batch.pc = "analysis"
    /\ pc = "done"
    /\ outcome = "returned"
    /\ ~batch.generateImage
    /\ batch' = [batch EXCEPT
                     !.pc = "loop",
                     !.results = Append(batch.results,
                                        SucceededLevel(zoomLevel, ThisAnalysis)),
                     !.outcomes = Append(batch.outcomes, outcome),
                     !.images = Append(batch.images, "none")]
    /\ UNCHANGED <<inputs, earlier, gapCall, solver, parse, strips, cameraHeight,
                   focalLength, left, right, iterations, counters, capped, halvings,
                   pc, result>>

\* The analysis has returned and an image is asked for; the image cannot be
\* made: generateStripDemoImage throws before it renders, or the directory
\* or the rendering fails.
BatchImageFails ==
    /\ batch.pc = "analysis"
    /\ pc = "done"
    /\ outcome = "returned"
    /\ batch.generateImage
    /\ \E message \in {DemoImageError(ThisAnalysis, heightArgument), "ImageGenerationError"} :
           /\ message # ""
           /\ batch' = [batch EXCEPT
                            !.pc = "loop",
                            !.results =
                                Append(batch.results,
                                       ImageFailed(SucceededLevel(zoomLevel, ThisAnalysis),
                                                   message)),
                            !.outcomes = Append(batch.outcomes, outcome),
                            !.images = Append(batch.images, "failed")]
    /\ UNCHANGED <<inputs, earlier, gapCall, solver, parse, strips, cameraHeight,
                   focalLength, left, right, iterations, counters, capped, halvings,
                   pc, result>>

\* The analysis has returned, an image is asked for and it is rendered.
BatchImage ==
    /\ batch.pc = "analysis"
    /\ pc = "done"
    /\ outcome = "returned"
    /\ batch.generateImage
    /\ DemoImageError(ThisAnalysis, heightArgument) = ""
    /\ batch' = [batch EXCEPT
                     !.pc = "loop",
                     !.results =
                         Append(batch.results,
                                ImageWritten(SucceededLevel(zoomLevel, ThisAnalysis),
                                             OutputPath(zoomLevel, minPixelGap))),
                     !.outcomes = Append(batch.outcomes, outcome),
                     !.images = Append(batch.images, "written")]
    /\ UNCHANGED <<inputs, earlier, gapCall, solver, parse, strips, cameraHeight,
                   focalLength, left, right, iterations, counters, capped, halvings,
                   pc, result>>

\* return results.
BatchReturn ==
    /\ batch.pc = "loop"
    /\ batch.index >= Len(batch.zoomLevels)
    /\ batch' = [batch EXCEPT !.pc = "returned"]
    /\ UNCHANGED <<inputs, earlier, gapCall, solver, parse, strips, cameraHeight,
                   focalLength, left, right, iterations, counters, capped, halvings,
                   pc, result>>

NextBatch ==
    \/ BatchLevel
    \/ NewZoom
    \/ analyzeCameraView
    \/ ExpandStep
    \/ BisectStep
    \/ Finish
    \/ BatchCatch
    \/ BatchPush
    \/ BatchImageFails
    \/ BatchImage
    \/ BatchReturn

SpecBatch == InitBatch /\ [][NextBatch]_vars

\* ------------------------------------------------------------------------
\* Properties
\* ------------------------------------------------------------------------
\* The call has returned a distance that the search computed.
SearchReturned == pc = "done" /\ outcome = "returned" /\ probes > 0

\* How many markings beyond the returned one are examined.
LookAhead == 12

\* feasible(d) for the marking k places beyond the returned distance.
FartherFeasible(k) ==
    Feasible(FAdd[distance, FromInt(k * LINE_SPACING)], focalLength, minPixelGap,
             cameraHeight)

\* C1: the distance the search returns is the farthest feasible marking
\* distance: none of the markings beyond it (the next LookAhead of them are
\* examined) passes the feasibility probe.  It is stated for the positive
\* gaps, where a distance far beyond the result is not feasible.
C1_ReturnedIsFarthestFeasible ==
    (SearchReturned /\ minPixelGap > 0) =>
        \A k \in 1..LookAhead : ~FartherFeasible(k)

\* C2: a distance above zero that the search returns passes the feasibility
\* probe itself: the gap between the markings at D and D - LINE_SPACING, at
\* the tilt the solver returns for D, is at least minPixelGap.
C2_ReturnedIsFeasible ==
    (SearchReturned /\ FGt(distance, Zero)) =>
        Feasible(distance, focalLength, minPixelGap, cameraHeight)

\* The search has returned a distance above zero for a positive gap.
C2_Witness ==
    /\ SearchReturned
    /\ minPixelGap = 10
    /\ FGt(distance, Zero)
    /\ Feasible(distance, focalLength, minPixelGap, cameraHeight)

\* A pass of the expansion loop below the cap whose probe at the bound is
\* feasible doubles the bound and stays in the loop.
DoubledWhileFeasible ==
    (/\ pc = "expand"
     /\ iterations < maxIterations
     /\ Feasible(FloorToSpacing(right), focalLength, minPixelGap, cameraHeight))
        => (pc' = "expand" /\ left' = right /\ right' = FMul[right, Two])

\* The search for zoom level 25 and a gap of 10 pixels ends above 400 m.
Above400 ==
    (SearchReturned /\ zoomLevel = 25 /\ minPixelGap = 10) =>
        FGt(distance, FromInt(400))

\* C3: the search has no fixed ceiling: its upper bound is doubled for as
\* long as the probe at the bound is feasible, and the distance for zoom 25
\* and 10 px is above 400 m.
C3_NoFixedCeiling == [][DoubledWhileFeasible]_vars /\ []Above400

\* A search has returned a distance beyond its initial bound.
C3_Witness ==
    /\ SearchReturned
    /\ ~capped
    /\ iterations > 0
    /\ FGt(distance, FromInt(InitialRight))

\* C4: when the expansion loop reaches its cap on the number of doublings
\* with the probe at the bound still feasible, the call ends with an error,
\* never with a returned distance.
C4_CapIsReported == (pc = "done" /\ capped) => outcome # "returned"

\* The call runs analyzeCameraView with a Zoom the constructor accepted.
Analysed == op \in {"cli", "analyzeCameraView"} /\ pc \in {"call", "expand", "bisect", "done"}
                /\ outcome \notin {"GapOptionError", "ZoomRangeError", "InvalidZoomLevelError"}

\* C5: for a minPixelGap above the vertical resolution analyzeCameraView
\* throws ImpossibleConstraintError, returns nothing, and no tilt solver run
\* or search probe precedes the throw.
C5_ImpossibleConstraintThrown ==
    (Analysed /\ minPixelGap > SENSOR_RES_Y) =>
        /\ pc \in {"call", "done"}
        /\ tiltCalls = 0
        /\ probes = 0
        /\ pc = "done" => outcome = "ImpossibleConstraintError"

\* analyzeCameraView has thrown ImpossibleConstraintError.
C5_Witness ==
    /\ Analysed
    /\ minPixelGap > SENSOR_RES_Y
    /\ pc = "done"
    /\ outcome = "ImpossibleConstraintError"

\* C6: for a minPixelGap above the vertical resolution the analysis returns
\* the distance 0 and the line count 0.
C6_ZeroResult ==
    (pc = "done" /\ zoomLevel >= 1 /\ minPixelGap > SENSOR_RES_Y) =>
        (outcome = "returned" /\ distance = Zero /\ lineCount = Zero)

\* C7: for a minPixelGap equal to the vertical resolution the call returns
\* the distance LINE_SPACING, with the line count 1 from analyzeCameraView,
\* and the expansion and bisection loops are never entered.
C7_SingleLineWithoutSearch ==
    (minPixelGap = SENSOR_RES_Y /\ zoomLevel >= 1) =>
        /\ pc \notin {"expand", "bisect"}
        /\ probes = 0
        /\ pc = "done" =>
              /\ outcome = "returned"
              /\ distance = FromInt(LINE_SPACING)
              /\ op # "computeMaxDistance" => lineCount = One

\* analyzeCameraView has returned from its special case.
C7_Witness ==
    /\ minPixelGap = SENSOR_RES_Y
    /\ op = "analyzeCameraView"
    /\ pc = "done"
    /\ lineCount = One
    /\ tiltCalls = 1

C9_NegativeGapRejected ==
    (op = "analyzeCameraView" /\ zoomLevel >= 1 /\ minPixelGap < 0) =>
        /\ tiltCalls = 0
        /\ probes = 0
        /\ pc = "done" => outcome \notin {"pending", "returned"}

\* The kinds of failure that are validation errors.
ValidationErrors ==
    {"GapOptionError", "ZoomRangeError", "InvalidZoomLevelError",
     "ImpossibleConstraintError"}

\* C10: a call ends by returning or with a validation error; a projection
\* that throws inside the tilt solver or inside a probe of the search is
\* caught there and the call still returns.
C10_OnlyValidationErrorsEscape ==
    /\ outcome \in {"pending", "returned"} \cup ValidationErrors
    /\ (pc = "done" /\ (solverCaught > 0 \/ caughtProbes > 0)) => outcome = "returned"

\* A call has returned although projections threw in the solver and in probes.
C10_Witness ==
    /\ pc = "done"
    /\ outcome = "returned"
    /\ solverCaught > 0
    /\ caughtProbes > 0
    /\ probes > caughtProbes

\* An analysis, by the library or the command line, has returned.
AnalysisReturned ==
    op \in {"cli", "analyzeCameraView"} /\ pc = "done" /\ outcome = "returned"

\* C11: every analysis that is returned has distance = lineCount *
\* LINE_SPACING, with lineCount a whole number that is not negative.
C11_DistanceIsLineCountTimesGap ==
    AnalysisReturned =>
        /\ distance = FMul[lineCount, FromInt(LINE_SPACING)]
        /\ FGe(lineCount, Zero)
        /\ MathFloor(lineCount) = lineCount

\* An analysis has returned a distance the search found, of several markings.
C11_Witness ==
    /\ AnalysisReturned
    /\ probes > 0
    /\ FGt(lineCount, One)
    /\ distance = FMul[lineCount, FromInt(LINE_SPACING)]

\* The iteration counts of a call are within their fixed bounds: the passes
\* of the tilt solver's loop, the doublings of the expansion loop, and the
\* passes of the bisection loop (60 at most).
IterationBounds ==
    /\ newtonSteps <= NewtonIterations
    /\ iterations <= maxIterations
    /\ halvings <= 60

\* How far the call is from its end: the statements still ahead of it, then
\* the doublings and the halvings its loops may still make.
PcRank ==
    CASE pc = "start" -> 6 [] pc = "action" -> 5 [] pc = "zoom" -> 4
      [] pc = "call" -> 3 [] pc = "expand" -> 2 [] pc = "bisect" -> 1
      [] pc = "done" -> 0

Variant == 200 * PcRank + (maxIterations - iterations) + (60 - halvings)

FocalLengthDerived == pc \in {"expand", "bisect", "done"} /\ focalLength # Zero

\* C17: the focal length derived from a zoom level of 1 or more is
\* min(F_MIN * level, F_MAX): it lies between F_MIN and F_MAX, and it is
\* F_MAX exactly for every level from F_MAX / F_MIN (4.8 * level >= F_MAX).
C17_FocalLengthClamped ==
    FocalLengthDerived =>
        /\ zoomLevel >= 1
        /\ focalLength = MathMin(FMinTimes(zoomLevel), FromInt(F_MAX))
        /\ FGe(focalLength, F_MIN)
        /\ FLe(focalLength, FromInt(F_MAX))
        /\ 48 * zoomLevel >= 10 * F_MAX => focalLength = FromInt(F_MAX)

\* An analysis at a zoom level above F_MAX / F_MIN ran at F_MAX.
C17_Witness ==
    /\ op = "analyzeCameraView"
    /\ 48 * zoomLevel > 10 * F_MAX
    /\ pc = "done"
    /\ probes > 0
    /\ focalLength = FromInt(F_MAX)

\* C20: the analyze command given a zoom value outside 1..25 (and a valid
\* gap) ends with an error and runs no tilt solver and no search probe.
C20_CliRejectsOutsideRange ==
    (op = "cli" /\ minPixelGap >= 0 /\ (zoomLevel < 1 \/ zoomLevel > 25)) =>
        /\ tiltCalls = 0
        /\ probes = 0
        /\ pc = "done" => outcome \notin {"pending", "returned"}

\* The calls that have ended, in the order they were made.
Calls == IF pc = "done" THEN Append(earlier, ThisCall) ELSE earlier

\* Two calls of the same entry point that ran at the same camera height.
SameRig(a, b) == a.op = b.op /\ a.cameraHeight = b.cameraHeight

BothReturned(a, b) == a.outcome = "returned" /\ b.outcome = "returned"

\* C12: for a fixed minPixelGap and camera height the maximum distance does
\* not decrease with the zoom level: of two calls that returned, the one at
\* the next zoom level returned at least the distance of the other, below,
\* at and above the level where the focal length is clamped.
C12_MonotonicInZoom ==
    \A i, j \in DOMAIN Calls :
        (/\ SameRig(Calls[i], Calls[j])
         /\ BothReturned(Calls[i], Calls[j])
         /\ Calls[i].minPixelGap = Calls[j].minPixelGap
         /\ Calls[j].zoomLevel = Calls[i].zoomLevel + 1)
            => FGe(Calls[j].distance, Calls[i].distance)

\* Two calls at successive zoom levels below the clamp returned distances
\* that grow, and the distances were found by the search.
C12_Witness ==
    /\ Len(Calls) = 2
    /\ SameRig(Calls[1], Calls[2])
    /\ BothReturned(Calls[1], Calls[2])
    /\ Calls[1].minPixelGap = Calls[2].minPixelGap
    /\ Calls[2].zoomLevel = Calls[1].zoomLevel + 1
    /\ FGt(Calls[1].distance, Zero)
    /\ FGt(Calls[2].distance, Calls[1].distance)

\* C13: for a fixed zoom level and camera height the maximum distance does
\* not increase with the gap: of two calls that returned, the one with the
\* gap larger by one pixel returned at most the distance of the other, for
\* every gap from 0.
C13_MonotonicInGap ==
    \A i, j \in DOMAIN Calls :
        (/\ SameRig(Calls[i], Calls[j])
         /\ BothReturned(Calls[i], Calls[j])
         /\ Calls[i].zoomLevel = Calls[j].zoomLevel
         /\ Calls[i].minPixelGap >= 0
         /\ Calls[j].minPixelGap = Calls[i].minPixelGap + 1)
            => FLe(Calls[j].distance, Calls[i].distance)

\* Two calls were given the same arguments.
SameArguments(a, b) ==
    /\ a.op = b.op
    /\ a.zoomLevel = b.zoomLevel
    /\ a.minPixelGap = b.minPixelGap
    /\ a.heightArgument = b.heightArgument

\* Two calls ended the same way: the same error, or the same distance, tilt,
\* line count and focal length.
SameOutputs(a, b) ==
    /\ a.outcome = b.outcome
    /\ a.distance = b.distance
    /\ a.tiltAngle = b.tiltAngle
    /\ a.lineCount = b.lineCount
    /\ a.focalLength = b.focalLength

DefaultHeight(a) == a.heightArgument \in {<<>>, <<CAMERA_HEIGHT>>}

\* C19: an analysis runs at the camera height it is given, and at
\* CAMERA_HEIGHT (20 m) when the height is omitted: the searches and tilt
\* solver runs of the call are given that height, and analyses that differ
\* only in the height being omitted or given as 20 have the same outputs.
C19_CameraHeightArgument ==
    /\ (op = "analyzeCameraView" /\ pc \in {"expand", "bisect", "done"}) =>
           cameraHeight = FromInt(IF heightArgument = <<>> THEN CAMERA_HEIGHT
                                  ELSE heightArgument[1])
    /\ \A i, j \in DOMAIN Calls :
           (/\ Calls[i].op = "analyzeCameraView"
            /\ Calls[j].op = "analyzeCameraView"
            /\ Calls[i].zoomLevel = Calls[j].zoomLevel
            /\ Calls[i].minPixelGap = Calls[j].minPixelGap
            /\ DefaultHeight(Calls[i])
            /\ DefaultHeight(Calls[j]))
               => SameOutputs(Calls[i], Calls[j])

\* An analysis without the height and one with the height 20 returned the
\* same distance, found by the search.
C19_Witness ==
    /\ Len(Calls) = 2
    /\ Calls[1].op = "analyzeCameraView"
    /\ Calls[1].heightArgument = <<>>
    /\ Calls[2].heightArgument = <<CAMERA_HEIGHT>>
    /\ Calls[2].outcome = "returned"
    /\ FGt(Calls[2].distance, Zero)
    /\ SameOutputs(Calls[1], Calls[2])

\* Zcam = -H * sin(tilt) + d * cos(tilt) of the point at the distance d.
Zcam(d, params) ==
    FAdd[FMul[FNeg(params.cameraHeight), MathSin[params.tiltAngle]],
         FMul[d, MathCos[params.tiltAngle]]]

\* Both projections of the call of computePixelGap have been made.
BothProjected ==
    /\ gapCall.pc = "done"
    /\ ~gapCall.currentProjection.thrown
    /\ ~gapCall.gap.thrown

\* C15: at a fixed focal length, tilt and camera height, of two ground
\* points in front of the camera the nearer one has the larger pixel row
\* (stated for the marking distances of MarkingDistances).
C15_NearerIsLower ==
    BothProjected =>
        /\ FLt(gapCall.lineDistance, gapCall.prevLineDistance) =>
               FGt(gapCall.currentProjection.value, gapCall.prevProjection.value)
        /\ FLt(gapCall.prevLineDistance, gapCall.lineDistance) =>
               FGt(gapCall.prevProjection.value, gapCall.currentProjection.value)

\* The gap of a marking and its predecessor was computed, both in front of
\* the camera, and the predecessor has the larger pixel row.
C15_Witness ==
    /\ BothProjected
    /\ gapCall.prevLineDistance = FSub[gapCall.lineDistance, FromInt(LINE_SPACING)]
    /\ FGt(gapCall.prevProjection.value, gapCall.currentProjection.value)
    /\ FGt(gapCall.gap.value, One)

\* C16: projectGroundPoint throws exactly when Zcam <= 0 and returns a
\* pixel row when Zcam > 0, and computePixelGap throws exactly when one of
\* its two points has Zcam <= 0.
C16_BehindCamera ==
    /\ gapCall.pc \in {"prev", "done"} =>
           (gapCall.currentProjection.thrown
               <=> FLe(Zcam(gapCall.lineDistance, gapCall.params), Zero))
    /\ (gapCall.pc = "done" /\ ~gapCall.currentProjection.thrown) =>
           (gapCall.prevProjection.thrown
               <=> FLe(Zcam(gapCall.prevLineDistance, gapCall.params), Zero))
    /\ gapCall.pc = "done" =>
           (gapCall.gap.thrown
               <=> \/ FLe(Zcam(gapCall.lineDistance, gapCall.params), Zero)
                   \/ FLe(Zcam(gapCall.prevLineDistance, gapCall.params), Zero))

\* computePixelGap threw because its second point is behind the camera
\* while its first is in front of it.
C16_Witness ==
    /\ gapCall.pc = "done"
    /\ ~gapCall.currentProjection.thrown
    /\ gapCall.prevProjection.thrown
    /\ gapCall.gap.thrown
    /\ FGt(Zcam(gapCall.lineDistance, gapCall.params), Zero)

\* feasible(d) for the k-th marking, at the focal length, gap and camera
\* height of the call.
MarkingFeasible(k) ==
    Feasible(FromInt(k * LINE_SPACING), focalLength, minPixelGap, cameraHeight)

\* C21: for a fixed focal length, camera height and minPixelGap, feasible(d)
\* does not increase with the marking distance d: when the distance the
\* search returned is feasible, so is every smaller marking distance from
\* LINE_SPACING up (the first LookAhead markings are examined), a probe that
\* ends in the catch block counting as infeasible.
C21_FeasibleIsMonotone ==
    (/\ SearchReturned
     /\ FGt(distance, Zero)
     /\ Feasible(distance, focalLength, minPixelGap, cameraHeight))
        => \A k \in 1..LookAhead :
               FLe(FromInt(k * LINE_SPACING), distance) => MarkingFeasible(k)

\* The bisection loop is about to make its first pass.
BisectionStarts == pc = "bisect" /\ halvings = 0

\* The bounds the bisection starts from bracket the answer: the lower one is
\* 0 or a bound whose probe is feasible, the upper one a bound whose probe is
\* not (it is infeasible or ends in the catch block).
BracketAtStart ==
    BisectionStarts =>
        /\ left = Zero
              \/ Feasible(FloorToSpacing(left), focalLength, minPixelGap, cameraHeight)
        /\ ~Feasible(FloorToSpacing(right), focalLength, minPixelGap, cameraHeight)

\* A pass of the bisection loop that runs a probe moves one end to the
\* midpoint, by the probe at the midpoint rounded down to a multiple of
\* LINE_SPACING.
HalvedAtRoundedMidpoint ==
    (pc = "bisect" /\ pc' = "bisect" /\ probes' = probes + 1) =>
        IF Feasible(FloorToSpacing(FDiv[FAdd[left, right], Two]), focalLength,
                    minPixelGap, cameraHeight)
        THEN left' = FDiv[FAdd[left, right], Two] /\ right' = right
        ELSE right' = FDiv[FAdd[left, right], Two] /\ left' = left

\* The bisection loop is left only with an interval within the tolerance.
EndsWithinTolerance ==
    (pc = "bisect" /\ pc' = "done") => FLe(FSub[right, left], DISTANCE_TOLERANCE)

\* C24: the bisection runs between the last feasible bound and the first
\* infeasible bound of the expansion: it starts with a lower bound that is 0
\* or was probed feasible and an upper bound that was probed infeasible (or
\* whose probe threw), probes the midpoint rounded down to a multiple of
\* LINE_SPACING in every pass, and ends only within the distance tolerance.
C24_BisectionBrackets ==
    /\ []BracketAtStart
    /\ [][HalvedAtRoundedMidpoint]_vars
    /\ [][EndsWithinTolerance]_vars

\* The direct call of findOptimalTilt has returned.
SolverReturned == solver.pc = "done"

\* The pass-by-pass loop returns what findOptimalTilt, as the search uses
\* it, returns for the same arguments.
SolverLoopAgrees ==
    SolverReturned =>
        /\ solver.tilt = findOptimalTilt(solver.targetDistance, solver.focalLength,
                                         solver.cameraHeight)
        /\ solver.caught = findOptimalTiltRun(solver.targetDistance, solver.focalLength,
                                              solver.cameraHeight).caught

\* C22: the tilt the solver returns lies in [minTilt, maxTilt] = [0.01,
\* pi/2 - 0.01], strictly inside (0, pi/2), for every target distance, focal
\* length and camera height, also when a projection threw and the catch
\* block ended the refinement; so does the estimate after every pass.
C22_TiltWithinClamp ==
    (solver.pc = "done" \/ (solver.pc = "loop" /\ solver.i > 0)) =>
        /\ FGe(solver.tilt, minTilt)
        /\ FLe(solver.tilt, maxTilt)
        /\ FGt(solver.tilt, Zero)
        /\ FLt(solver.tilt, FDiv[MathPI, Two])

\* A call whose first projection threw returned its initial estimate,
\* clamped, which is inside the interval.
C22_Witness ==
    /\ SolverReturned
    /\ solver.caught
    /\ solver.i = 0
    /\ FGt(solver.tilt, minTilt)
    /\ FLt(solver.tilt, maxTilt)

\* After a pass that found the derivative negligible the function returns
\* at once: there is no further pass.
StopsWhenFlat ==
    (solver.pc = "loop" /\ solver.flat) =>
        (solver'.pc = "done" /\ solver'.i = solver.i /\ solver'.tilt = solver.tilt)

\* C23 as claimed: when the finite-difference derivative is negligible the
\* solver stops iterating at that pass and returns the current estimate.
C23_StopsAtNegligibleDerivative == [][StopsWhenFlat]_vars

\* (projectionDelta.y - projection.y) / delta at the tilt of a pass in which
\* neither projection throws.
DerivativeAt(tilt, targetDistance, focal, height) ==
    FDiv[FSub[projectGroundPoint(targetDistance,
                  ProjectionParams(focal, MathMin(maxTilt, FAdd[tilt, delta]),
                                   height)).value,
              projectGroundPoint(targetDistance,
                  ProjectionParams(focal, tilt, height)).value],
         delta]

\* The pass that has just been made, from the estimate of the state before,
\* went through to the end of the loop body and its finite-difference
\* derivative was negligible (not above DerivativeFloor in magnitude).
PassWithNegligibleDerivative ==
    /\ solver.pc = "loop"
    /\ solver'.pc = "loop"
    /\ solver'.i = solver.i + 1
    /\ FLe(FAbs(DerivativeAt(ClampTilt(solver.tilt), solver.targetDistance,
                             solver.focalLength, solver.cameraHeight)),
           DerivativeFloor)

\* A pass that finds the derivative negligible makes no update: it leaves
\* the estimate as the clamp at the head of the pass made it.
NoUpdateWhenFlat ==
    PassWithNegligibleDerivative =>
        (solver'.tilt = ClampTilt(solver.tilt) /\ solver'.flat)

\* Once a pass has found the derivative negligible, the estimate stays as
\* it is: every later pass finds the same and the function returns it.
KeptOnceFlat ==
    (solver.pc = "loop" /\ solver.flat) =>
        /\ solver'.tilt = solver.tilt
        /\ solver'.flat \/ (solver'.pc = "done" /\ solver.i = NewtonIterations)

\* C23, amended: when the derivative is negligible the pass makes no update
\* (nothing is divided by the derivative); the loop runs on to its budget of
\* NewtonIterations passes, each of which finds the same and changes
\* nothing, and the function returns the estimate of that pass.
C23_NoUpdateAtNegligibleDerivative ==
    [][NoUpdateWhenFlat /\ KeptOnceFlat]_vars

\* A call has returned after passes that found the derivative negligible
\* (the estimate had run into the upper limit of the tilt) and that were
\* followed by further passes up to the budget.
C23_Witness ==
    /\ SolverReturned
    /\ solver.i = NewtonIterations
    /\ ~solver.caught
    /\ solver.tilt = maxTilt
    /\ NewtonStep(solver.tilt, solver.targetDistance, solver.focalLength,
                  solver.cameraHeight).flat

\* Call a ran the plain search and call b the detailed search, on the same
\* focal length, gap and camera height, and both returned.
PlainAndDetailed(a, b) ==
    /\ a.op = "computeMaxDistance"
    /\ b.op = "analyzeCameraView"
    /\ a.focalLength = b.focalLength
    /\ a.minPixelGap = b.minPixelGap
    /\ a.cameraHeight = b.cameraHeight
    /\ a.minPixelGap < SENSOR_RES_Y
    /\ BothReturned(a, b)

BothFoundNothing ==
    /\ Len(Calls) = 2
    /\ PlainAndDetailed(Calls[1], Calls[2])
    /\ Calls[1].distance = Zero
    /\ Calls[2].distance = Zero
    /\ probes > 0

\* parseZoomRange has returned a success.
ParseSucceeded == parse.pc = "done" /\ parse.result.success

\* The zoom values the parts of the input stand for.
WrittenValues == UNION {parse.written[i].denotes : i \in DOMAIN parse.written}

\* C28: when parseZoomRange succeeds, its values are strictly ascending
\* (sorted, without duplicates), every value is a whole number of 1 or
\* more, and the values are exactly the single values and the inclusive
\* ranges written in the input, taken together.
C28_ValuesSortedUniqueAndComplete ==
    ParseSucceeded =>
        /\ \A i, j \in DOMAIN parse.result.values :
               i < j => parse.result.values[i] < parse.result.values[j]
        /\ \A i \in DOMAIN parse.result.values :
               parse.result.values[i] \in Nat /\ parse.result.values[i] >= 1
        /\ Elements(parse.result.values) = WrittenValues

\* An input of overlapping ranges and a value written out of order was
\* parsed to the sorted values without duplicates.
C28_Witness ==
    /\ ParseSucceeded
    /\ Len(parse.written) = 3
    /\ parse.written[1].denotes = {10}
    /\ parse.written[2].denotes = 1..3
    /\ parse.written[3].denotes = 2..4
    /\ Len(parse.values) = 7
    /\ parse.result.values = <<1, 2, 3, 4, 10>>

\* The input holds no zoom value: it is empty or made of blanks and commas.
NothingWritten ==
    \A i \in DOMAIN parse.input : parse.input[i] \in {" ", ","}

\* C29: parseZoomRange returns a failure for every input without any zoom
\* value (empty, blanks only, or commas only), so that a success always
\* carries at least one value.
C29_NoValuesIsFailure ==
    parse.pc = "done" =>
        /\ NothingWritten => ~parse.result.success
        /\ parse.result.success => parse.result.values # <<>>

\* generateStripVisualizations has been called and has returned or thrown.
Visualized == strips.pc = "done"

\* C30: for every analysis whose lineCount is 0 generateStripVisualizations
\* returns the empty list and throws nothing, the analysis of distance 0 and
\* 0 lines that the distance search produces when no marking is feasible
\* included.
C30_EmptyForZeroLines ==
    (Visualized /\ lineCount = Zero) =>
        (~strips.result.thrown /\ strips.result.visualizations = <<>>)

\* An analysis of several lines was turned into strips, the last two of
\* them highlighted.
StripsWereDrawn ==
    /\ Visualized
    /\ probes > 0
    /\ ~strips.result.thrown
    /\ Len(strips.result.visualizations) >= 2
    /\ strips.result.visualizations[Len(strips.result.visualizations)].isHighlighted
    /\ ~strips.result.visualizations[1].isHighlighted

\* processBatch has returned its results.
BatchReturned == batch.pc = "returned"

\* The error a zoom level is bound to fail with, "" when neither the zoom
\* construction nor the constraint validation rejects it.
LevelError(level) ==
    IF InvalidZoomLevel(level) THEN "InvalidZoomLevelError"
    ELSE IF ImpossibleConstraint(minPixelGap) THEN "ImpossibleConstraintError"
    ELSE ""

\* C26: processBatch pushes one result for every zoom level it has been
\* through, in the order of the input, so that the list it returns has one
\* result per input level (none for an empty input); a level whose zoom is
\* invalid or whose constraint is impossible gets a failed result carrying
\* that error, and the levels after it still get their results.
C26_OneResultPerLevelInOrder ==
    batch.pc # "none" =>
        /\ Len(batch.results) <= Len(batch.zoomLevels)
        /\ BatchReturned => Len(batch.results) = Len(batch.zoomLevels)
        /\ \A k \in DOMAIN batch.results :
               /\ batch.results[k].zoomLevel = batch.zoomLevels[k]
               /\ LevelError(batch.zoomLevels[k]) # "" =>
                      /\ ~batch.results[k].success
                      /\ batch.results[k].error = <<LevelError(batch.zoomLevels[k])>>

\* A batch of two levels has returned: the first level failed and the
\* second one, processed after it, succeeded.
C26_Witness ==
    /\ BatchReturned
    /\ Len(batch.results) = 2
    /\ ~batch.results[1].success
    /\ batch.results[2].success

\* An empty batch has returned an empty list.
EmptyBatchReturned == BatchReturned /\ batch.zoomLevels = <<>> /\ batch.results = <<>>

\* C27: a result of processBatch has success = true exactly when new Zoom
\* and analyzeCameraView both returned for its level, and it then holds the
\* analysis; when the image generation fails after that, success stays true,
\* the analysis stays, an error message is recorded and no imagePath is set.
C27_SuccessMeansAnalysisSucceeded ==
    batch.pc # "none" =>
        \A k \in DOMAIN batch.results :
            /\ batch.results[k].success <=> batch.outcomes[k] = "returned"
            /\ batch.results[k].success <=> batch.results[k].analysis # <<>>
            /\ batch.images[k] = "failed" =>
                   /\ batch.results[k].success
                   /\ batch.results[k].analysis # <<>>
                   /\ batch.results[k].error # <<>>
                   /\ batch.results[k].imagePath = <<>>

\* A batch has returned in which the image of one level could not be made
\* because the analysis found no line, and the image of another was written.
C27_Witness ==
    /\ BatchReturned
    /\ \E k \in DOMAIN batch.results :
           /\ batch.images[k] = "failed"
           /\ batch.results[k].error = <<ImagePrefix, "NoVisibleStripsError">>
    /\ \E k \in DOMAIN batch.results :
           /\ batch.images[k] = "written"
           /\ batch.results[k].imagePath # <<>>

====
